---- MODULE Spec2Model ----
(***************************************************************************)
(* Model of the lecture-to-notes text pipeline:                            *)
(*   utils/text_processing.py   TextProcessor (clean_transcript,           *)
(*                              split_into_sentences,                      *)
(*                              create_text_summary_stats)                 *)
(*   models/flashcard_generator.py, models/quiz_generator.py               *)
(*                              the JSON response parsers and fallbacks    *)
(*                                                                         *)
(* A text is a sequence of characters; a character is a one-character      *)
(* string.  The regular expressions of the source are data (sequences of   *)
(* atoms) run by a backtracking matcher with the semantics of Python's re. *)
(***************************************************************************)
EXTENDS Integers, Sequences, FiniteSets, TLC

VARIABLES pc, input, nltk, cuts, ret, ret2,
          \* TextProcessor.stop_words and the count argument of a call
          stop_words, num

VARIABLES \* the rows of the lectures table, by id
          lectures,
          \* the largest id the table has handed out (AUTOINCREMENT)
          last_id,
          \* the local variables of the page handler that is running
          locals,
          \* the files selected for batch processing and the loop's progress
          batch,
          \* the temporary files that exist in the file system
          temp_files

\* the variables of the keyword extractor, untouched elsewhere
kwVars == <<stop_words, num>>
KeywordsIdle == stop_words = {} /\ num = 0

\* the variables of the application, untouched by the library calls
appVars == <<lectures, last_id, locals, batch, temp_files>>
NoRun == [file |-> <<>>, lecture_id |-> 0, flags |-> {}, raw |-> <<>>, cleaned |-> <<>>,
          insights |-> <<>>, results |-> {}, error |-> "none"]
NoBatch == [files |-> <<>>, i |-> 0, attempted |-> <<>>, succeeded |-> {}, failed |-> {}]
AppIdle ==
    lectures = <<>> /\ last_id = 0 /\ locals = NoRun /\ batch = NoBatch /\ temp_files = {}

vars == <<pc, input, nltk, cuts, ret, ret2, kwVars, appVars>>

(***************************************************************************)
(* Characters                                                              *)
(***************************************************************************)
LowerSeq == <<"a","b","c","d","e","f","g","h","i","j","k","l","m",
              "n","o","p","q","r","s","t","u","v","w","x","y","z">>
UpperSeq == <<"A","B","C","D","E","F","G","H","I","J","K","L","M",
              "N","O","P","Q","R","S","T","U","V","W","X","Y","Z">>
LowerSet == {LowerSeq[i] : i \in 1..26}
UpperSet == {UpperSeq[i] : i \in 1..26}
AsciiLetters == LowerSet \cup UpperSet
DigitSet == {"0","1","2","3","4","5","6","7","8","9"}
\* U+017F LATIN SMALL LETTER LONG S: a letter outside [A-Za-z] that Python's
\* re.IGNORECASE matches against "s" and that str.upper() maps to "S".
LongS == "U+017F"
\* \s and str.strip(): whitespace
WhiteSet == {" ", "\n", "\t"}
\* the class [,.!?;:] of the source's patterns
PunctSet == {",", ".", "!", "?", ";", ":"}
\* \w
WordSet == AsciiLetters \cup DigitSet \cup {"_", LongS}

IndexOf(seq, c) == CHOOSE i \in 1..Len(seq) : seq[i] = c

\* str.upper() on one character
Upper(c) == IF c \in LowerSet THEN UpperSeq[IndexOf(LowerSeq, c)]
            ELSE IF c = LongS THEN "S" ELSE c
\* str.lower() on one character
Lower(c) == IF c \in UpperSet THEN LowerSeq[IndexOf(UpperSeq, c)] ELSE c
\* case folding of re.IGNORECASE: lower-casing plus the s / long-s equivalence
Fold(c) == IF c = LongS THEN "s" ELSE Lower(c)

(***************************************************************************)
(* Python's re: a pattern is a sequence of atoms                           *)
(*   [t |-> "cls", set, neg, lo, hi, lazy]  a quantified character class   *)
(*   [t |-> "lit", alts, ci]                an alternation of literals     *)
(*   [t |-> "bol"]                          ^ under re.MULTILINE           *)
(*   [t |-> "wb"]                           \b                             *)
(* Match returns the end position (index of the next character) of every   *)
(* atom, in the order a backtracking matcher finds the first match.        *)
(***************************************************************************)
\* hi = Unbounded: no upper limit on the repetitions
Unbounded == -1
Cls(S, lo, hi) == [t |-> "cls", set |-> S, neg |-> FALSE, lo |-> lo, hi |-> hi, lazy |-> FALSE]
NotCls(S, lo, hi, lazy) == [t |-> "cls", set |-> S, neg |-> TRUE, lo |-> lo, hi |-> hi, lazy |-> lazy]
One(S) == Cls(S, 1, 1)
Star(S) == Cls(S, 0, Unbounded)
Plus(S) == Cls(S, 1, Unbounded)
Lit(w) == [t |-> "lit", alts |-> <<w>>, ci |-> FALSE]
Alt(ws) == [t |-> "lit", alts |-> ws, ci |-> FALSE]
AltI(ws) == [t |-> "lit", alts |-> ws, ci |-> TRUE]
Bol == [t |-> "bol"]
Wb == [t |-> "wb"]

Fail == <<0>>
InCls(a, c) == (c \in a.set) # a.neg

SetMin(S) == CHOOSE x \in S : \A y \in S : x <= y
SetMax(S) == CHOOSE x \in S : \A y \in S : x >= y

\* number of consecutive characters of class a from position i, at most a.hi
RunLen(a, s, i) ==
    LET stops == {j \in i..Len(s) : ~InCls(a, s[j])}
        run == IF stops = {} THEN Len(s) - i + 1 ELSE SetMin(stops) - i
    IN  IF a.hi # Unbounded /\ run > a.hi THEN a.hi ELSE run

\* literal w at position i of s
LitAt(w, ci, s, i) ==
    /\ i + Len(w) - 1 <= Len(s)
    /\ \A j \in 1..Len(w) :
          IF ci THEN Fold(s[i + j - 1]) = Fold(w[j]) ELSE s[i + j - 1] = w[j]

IsWordAt(s, i) == i >= 1 /\ i <= Len(s) /\ s[i] \in WordSet
\* \b: between s[i-1] and s[i]
WordBoundary(s, i) == IsWordAt(s, i - 1) # IsWordAt(s, i)
\* ^ with re.MULTILINE: at the start of the text or just after a newline
LineStart(s, i) == i = 1 \/ s[i - 1] = "\n"

Positive(n) == n > 0

\* the positions at which atom a, tried at position i, can end, in the order
\* the matcher tries them: the alternatives as written; for a repetition the
\* longest first when greedy, the shortest first when lazy
Ends(a, s, i) ==
    CASE a.t = "bol" -> IF LineStart(s, i) THEN <<i>> ELSE <<>>
      [] a.t = "wb"  -> IF WordBoundary(s, i) THEN <<i>> ELSE <<>>
      [] a.t = "lit" ->
           SelectSeq([j \in 1..Len(a.alts) |->
                         IF LitAt(a.alts[j], a.ci, s, i) THEN i + Len(a.alts[j]) ELSE 0],
                     Positive)
      [] a.t = "cls" ->
           LET n == RunLen(a, s, i)
           IN  [j \in 1..(n - a.lo + 1) |->
                  IF a.lazy THEN i + a.lo + j - 1 ELSE i + n - j + 1]

\* the first end position after which the rest of the pattern matched
FirstMatch(ends, rests) ==
    LET ok == {j \in 1..Len(ends) : rests[j] # Fail}
    IN  IF ok = {} THEN Fail ELSE <<ends[SetMin(ok)]>> \o rests[SetMin(ok)]

\* the match of atoms k.. of pat at position i of s: the end position of
\* each atom, or Fail
RECURSIVE Match(_, _, _, _)
MatchRest(pat, k, s, ends) ==
    FirstMatch(ends, [j \in 1..Len(ends) |-> Match(pat, k + 1, s, ends[j])])
Match(pat, k, s, i) ==
    IF k > Len(pat) THEN <<>> ELSE MatchRest(pat, k, s, Ends(pat[k], s, i))

\* the text atom k matched, in a match m that starts at i
Group(s, i, m, k) == SubSeq(s, IF k = 1 THEN i ELSE m[k - 1], m[k] - 1)

MapUpper(s) == [j \in 1..Len(s) |-> Upper(s[j])]
MapLower(s) == [j \in 1..Len(s) |-> Lower(s[j])]

\* a replacement template: literal text, \k (the group that is atom k) and
\* the upper-cased group of a replacement callback
RECURSIVE Expand(_, _, _, _, _)
Expand(repl, j, s, i, m) ==
    IF j > Len(repl) THEN <<>>
    ELSE LET r == repl[j]
             piece == CASE r.t = "text"  -> r.w
                        [] r.t = "group" -> Group(s, i, m, r.k)
                        [] r.t = "upper" -> MapUpper(Group(s, i, m, r.k))
         IN piece \o Expand(repl, j + 1, s, i, m)
Text(w) == [t |-> "text", w |-> w]
Grp(k) == [t |-> "group", k |-> k]
UpperGrp(k) == [t |-> "upper", k |-> k]

\* a match that is not empty.  (No pattern of the source matches the empty
\* string.)
NonEmptyMatch(m, p) == m # Fail /\ m[Len(m)] > p
\* the leftmost position from i on at which pat matches, 0 if there is none
SearchFrom(pat, s, i) ==
    LET starts == {p \in i..Len(s) : NonEmptyMatch(Match(pat, 1, s, p), p)}
    IN  IF starts = {} THEN 0 ELSE SetMin(starts)

\* re.sub(pat, repl, s): leftmost non-overlapping matches, left to right
RECURSIVE SubFrom(_, _, _, _)
SubMatch(pat, repl, s, i, p, m) ==
    SubSeq(s, i, p - 1) \o Expand(repl, 1, s, p, m) \o SubFrom(pat, repl, s, m[Len(m)])
SubAt(pat, repl, s, i, p) ==
    IF p = 0 THEN SubSeq(s, i, Len(s))
    ELSE SubMatch(pat, repl, s, i, p, Match(pat, 1, s, p))
SubFrom(pat, repl, s, i) == SubAt(pat, repl, s, i, SearchFrom(pat, s, i))
ReSub(pat, repl, s) == IF s = <<>> THEN <<>> ELSE SubFrom(pat, repl, s, 1)

\* a sequence of re.sub calls, each on the result of the one before
Sub(pat, repl) == [pat |-> pat, repl |-> repl]
RECURSIVE SubAll(_, _)
SubAll(subs, s) ==
    IF subs = <<>> THEN s
    ELSE SubAll(Tail(subs), ReSub(Head(subs).pat, Head(subs).repl, s))

\* re.search(pat, s) is not None
ReFound(pat, s) == \E i \in 1..Len(s) : Match(pat, 1, s, i) # Fail

\* str.strip()
Strip(s) ==
    LET keep == {i \in 1..Len(s) : s[i] \notin WhiteSet}
    IN  IF keep = {} THEN <<>> ELSE SubSeq(s, SetMin(keep), SetMax(keep))

\* str.split(sep) for a one-character separator: the list of fields
Split(s, sep) ==
    LET at == {i \in 1..Len(s) : s[i] = sep}
        \* position of the j-th separator; 0 and Len(s)+1 bound the text
        nth(j) == IF j = 0 THEN 0
                  ELSE IF j > Cardinality(at) THEN Len(s) + 1
                  ELSE CHOOSE p \in at : Cardinality({q \in at : q < p}) = j - 1
    IN  [j \in 1..(Cardinality(at) + 1) |-> SubSeq(s, nth(j - 1) + 1, nth(j) - 1)]

\* sep.join(parts)
RECURSIVE Join(_, _)
Join(parts, sep) ==
    IF parts = <<>> THEN <<>>
    ELSE IF Len(parts) = 1 THEN parts[1]
    ELSE parts[1] \o sep \o Join(Tail(parts), sep)

\* re.split(pat, s) for a pattern without groups; str.split(sep) is the same
\* with a literal pattern
RECURSIVE SplitFrom(_, _, _)
SplitMatch(pat, s, i, p, m) == <<SubSeq(s, i, p - 1)>> \o SplitFrom(pat, s, m[Len(m)])
SplitAt(pat, s, i, p) ==
    IF p = 0 THEN <<SubSeq(s, i, Len(s))>>
    ELSE SplitMatch(pat, s, i, p, Match(pat, 1, s, p))
SplitFrom(pat, s, i) == SplitAt(pat, s, i, SearchFrom(pat, s, i))
ReSplit(pat, s) == SplitFrom(pat, s, 1)

\* str.split(): the maximal runs of non-whitespace characters
SplitWords(s) ==
    LET first == {i \in 1..Len(s) :
                    s[i] \notin WhiteSet /\ (i = 1 \/ s[i - 1] \in WhiteSet)}
        last(i) == SetMin({j \in i..Len(s) :
                              j = Len(s) \/ s[j + 1] \in WhiteSet})
        nth(j) == CHOOSE p \in first : Cardinality({q \in first : q < p}) = j - 1
    IN  [j \in 1..Cardinality(first) |-> SubSeq(s, nth(j), last(nth(j)))]

\* the pieces of s that end at the positions of the set ends, and the rest
CutAfter(s, ends) ==
    LET nth(j) == IF j = 0 THEN 0
                  ELSE IF j > Cardinality(ends) THEN Len(s)
                  ELSE CHOOSE p \in ends : Cardinality({q \in ends : q < p}) = j - 1
    IN  [j \in 1..(Cardinality(ends) + 1) |-> SubSeq(s, nth(j - 1) + 1, nth(j))]

RECURSIVE SumLen(_)
SumLen(parts) == IF parts = <<>> THEN 0 ELSE Len(Head(parts)) + SumLen(Tail(parts))

(***************************************************************************)
(* TextProcessor.clean_transcript and its steps                            *)
(***************************************************************************)
\* r'\s+'
WhitespaceRun == <<Plus(WhiteSet)>>
\* r'\[\d{1,2}:\d{2}:\d{2}\]' and r'\(\d{1,2}:\d{2}:\d{2}\)'
TimestampPattern(open, close) ==
    <<Lit(<<open>>), Cls(DigitSet, 1, 2), Lit(<<":">>), Cls(DigitSet, 2, 2),
      Lit(<<":">>), Cls(DigitSet, 2, 2), Lit(<<close>>)>>
\* r'^(Speaker|Student|Professor|Lecturer)\s*\d*\s*:'
SpeakerNames == <<<<"S","p","e","a","k","e","r">>, <<"S","t","u","d","e","n","t">>,
                  <<"P","r","o","f","e","s","s","o","r">>,
                  <<"L","e","c","t","u","r","e","r">>>>
SpeakerLabel == <<Bol, Alt(SpeakerNames), Star(WhiteSet), Star(DigitSet),
                  Star(WhiteSet), Lit(<<":">>)>>
\* r'^(SPEAKER_\d+|UNKNOWN_\d+)\s*:'  (both alternatives end in \d+)
MachineNames == <<<<"S","P","E","A","K","E","R","_">>, <<"U","N","K","N","O","W","N","_">>>>
MachineLabel == <<Bol, Alt(MachineNames), Plus(DigitSet), Star(WhiteSet), Lit(<<":">>)>>
\* r'\[inaudible\]' ... r'\[applause\]', all with re.IGNORECASE
Inaudible == <<"[","i","n","a","u","d","i","b","l","e","]">>
Unclear == <<"[","u","n","c","l","e","a","r","]">>
Crosstalk == <<"[","c","r","o","s","s","t","a","l","k","]">>
Music == <<"[","m","u","s","i","c","]">>
Applause == <<"[","a","p","p","l","a","u","s","e","]">>
Marker(w) == <<AltI(<<w>>)>>
\* r'\s+([,.!?;:])'
SpaceBeforePunct == <<Plus(WhiteSet), One(PunctSet)>>
\* r'([,.!?;:])\s*([,.!?;:])'
PunctPair == <<One(PunctSet), Star(WhiteSet), One(PunctSet)>>

_fix_transcription_artifacts(text) ==
    SubAll(<<Sub(TimestampPattern("[", "]"), <<>>),
             Sub(TimestampPattern("(", ")"), <<>>),
             Sub(SpeakerLabel, <<>>),
             Sub(MachineLabel, <<>>),
             Sub(Marker(Inaudible), <<Text(Unclear)>>),
             Sub(Marker(Unclear), <<>>),
             Sub(Marker(Crosstalk), <<>>),
             Sub(Marker(Music), <<>>),
             Sub(Marker(Applause), <<>>),
             Sub(SpaceBeforePunct, <<Grp(2)>>),
             Sub(PunctPair, <<Grp(1), Text(<<" ">>), Grp(3)>>)>>,
           text)

\* sentence[0].upper() + sentence[1:] if len(sentence) > 1 else sentence.upper()
Capitalize(sentence) ==
    IF Len(sentence) > 1 THEN <<Upper(sentence[1])>> \o Tail(sentence)
    ELSE MapUpper(sentence)

NonEmpty(w) == w # <<>>
\* the loop of _improve_sentence_structure over text.split('.')
ImproveSentences(sentences) ==
    LET stripped == [j \in 1..Len(sentences) |-> Strip(sentences[j])]
        kept == SelectSeq(stripped, NonEmpty)
    IN  [j \in 1..Len(kept) |-> Capitalize(kept[j])]

\* r'([.!?])\s+'
SentenceEndSpace == <<One({".", "!", "?"}), Plus(WhiteSet)>>
\* r'([.!?])\s+([a-z])'
SentenceEndLower == <<One({".", "!", "?"}), Plus(WhiteSet), One(LowerSet)>>

_improve_sentence_structure(text) ==
    SubAll(<<Sub(SentenceEndSpace, <<Grp(1), Text(<<" ">>)>>),
             Sub(SentenceEndLower, <<Grp(1), Text(<<" ">>), UpperGrp(3)>>)>>,
           Join(ImproveSentences(Split(text, ".")), <<".", " ">>))

\* r'[,.!?;:]{2,}'
PunctRun == <<Cls(PunctSet, 2, Unbounded)>>
\* r'([,.!?;:])([A-Za-z])'
PunctLetter == <<One(PunctSet), One(AsciiLetters)>>
\* r'\.\s*([,.!?;:])'
PeriodPunct == <<Lit(<<".">>), Star(WhiteSet), One(PunctSet)>>
\* r'"\s*([^"]*?)\s*"' and r"'\s*([^']*?)\s*'"
Quoted(q) == <<Lit(<<q>>), Star(WhiteSet), NotCls({q}, 0, Unbounded, TRUE),
               Star(WhiteSet), Lit(<<q>>)>>

_clean_punctuation(text) ==
    SubAll(<<Sub(PunctRun, <<Text(<<".">>)>>),
             Sub(PunctLetter, <<Grp(1), Text(<<" ">>), Grp(2)>>),
             Sub(PeriodPunct, <<Text(<<".", " ">>)>>),
             Sub(Quoted("\""), <<Text(<<"\"">>), Grp(3), Text(<<"\"">>)>>),
             Sub(Quoted("'"), <<Text(<<"'">>), Grp(3), Text(<<"'">>)>>)>>,
           text)

\* filler_patterns, each r'\b(...)\b' with re.IGNORECASE
Fillers1 == <<<<"u","m">>, <<"u","h">>, <<"e","r">>, <<"a","h">>, <<"l","i","k","e">>,
              <<"y","o","u"," ","k","n","o","w">>, <<"s","o">>,
              <<"w","e","l","l">>, <<"a","c","t","u","a","l","l","y">>,
              <<"b","a","s","i","c","a","l","l","y">>,
              <<"l","i","t","e","r","a","l","l","y">>>>
Fillers2 == <<<<"k","i","n","d"," ","o","f">>, <<"s","o","r","t"," ","o","f">>,
              <<"t","y","p","e"," ","o","f">>>>
Fillers3 == <<<<"I"," ","m","e","a","n">>, <<"y","o","u"," ","s","e","e">>,
              <<"l","e","t"," ","m","e"," ","s","e","e">>,
              <<"l","e","t","'","s"," ","s","e","e">>>>
Fillers4 == <<<<"r","i","g","h","t","?">>, <<"o","k","a","y","?">>,
              <<"a","l","r","i","g","h","t","?">>>>
FillerPattern(ws) == <<Wb, AltI(ws), Wb>>
filler_patterns == <<FillerPattern(Fillers1), FillerPattern(Fillers2),
                     FillerPattern(Fillers3), FillerPattern(Fillers4)>>

\* the loop over filler_patterns, then the whitespace clean-up
_remove_filler_words(text) ==
    SubAll(<<Sub(filler_patterns[1], <<>>),
             Sub(filler_patterns[2], <<>>),
             Sub(filler_patterns[3], <<>>),
             Sub(filler_patterns[4], <<>>),
             Sub(WhitespaceRun, <<Text(<<" ">>)>>)>>,
           text)

\* the early return handing back the blank text itself
clean_transcript_keeps_blank(text) ==
    IF text = <<>> \/ Strip(text) = <<>> THEN text
    ELSE Strip(_remove_filler_words(_clean_punctuation(_improve_sentence_structure(
             _fix_transcription_artifacts(ReSub(WhitespaceRun, <<Text(<<" ">>)>>, text))))))
clean_transcript(text) ==
    IF text = <<>> \/ Strip(text) = <<>> THEN <<>>
    ELSE Strip(_remove_filler_words(_clean_punctuation(_improve_sentence_structure(
             _fix_transcription_artifacts(ReSub(WhitespaceRun, <<Text(<<" ">>)>>, text))))))

(***************************************************************************)
(* TextProcessor.split_into_sentences and create_text_summary_stats        *)
(***************************************************************************)
\* nltk.tokenize.sent_tokenize (Punkt) is a trained model outside the
\* repository.  It breaks a text only after a sentence-ending character
\* that is followed by whitespace or by closing punctuation; which of these
\* places it breaks at is its own decision, so the model leaves it open: a
\* run of the tokenizer is any subset of the candidate places.
SentEndChars == {".", "!", "?"}
NonWordAfter == {")", "\"", ";", "}", "]", "*", ":", "@", "'", "(", "{", "[", "!"}
PunktCandidates(text) ==
    {i \in 1..(Len(text) - 1) :
        text[i] \in SentEndChars /\ text[i + 1] \in WhiteSet \cup NonWordAfter}
sent_tokenize(text, breaks) == CutAfter(text, breaks)

\* r'[.!?]+\s+'
SentenceBreak == <<Plus(SentEndChars), Plus(WhiteSet)>>

\* len(sentence) > 10
MinSentenceLen == 10
\* the filter with >= in place of >
LongEnoughInclusive(sentence) == Len(sentence) >= MinSentenceLen
LongEnough(sentence) == Len(sentence) > MinSentenceLen

\* a choice that also falls back when the text holds no sentence mark
split_strategy_by_text(text, hasNltk) ==
    IF hasNltk /\ \E i \in 1..Len(text) : text[i] \in SentEndChars THEN "nltk" ELSE "regex"
\* the branch of the try statement that yields the sentences.  hasNltk:
\* sent_tokenize is importable and its data is present, so the call returns;
\* otherwise the import or the call raises and the bare except selects the
\* regex fallback
split_strategy(text, hasNltk) == IF hasNltk THEN "nltk" ELSE "regex"

\* the sentences without the length filter
split_unfiltered(text, hasNltk, breaks) ==
    LET sentences == IF hasNltk THEN CutAfter(text, breaks)
                     ELSE ReSplit(SentenceBreak, text)
    IN  [j \in 1..Len(sentences) |-> Strip(sentences[j])]

split_into_sentences(text, hasNltk, breaks) ==
    LET sentences == IF split_strategy(text, hasNltk) = "nltk"
                     THEN sent_tokenize(text, breaks)
                     ELSE ReSplit(SentenceBreak, text)
        stripped == [j \in 1..Len(sentences) |-> Strip(sentences[j])]
    IN  SelectSeq(stripped, LongEnough)

\* round(n / d, 1), in tenths: the nearest tenth, an exact tie to the even
\* one.  (A tie that is not exact in binary floating point needs a
\* denominator that is a multiple of 20.)
Round1(n, d) ==
    LET q == (10 * n) \div d
        r == (10 * n) % d
    IN  IF 2 * r < d THEN q
        ELSE IF 2 * r > d THEN q + 1
        ELSE IF q % 2 = 0 THEN q ELSE q + 1

ReadingWpm == 200
SpeakingWpm == 150

\* the averages taken over at least one sentence: len(words) / max(len(sentences), 1)
create_text_summary_stats_floor(text, hasNltk, breaks) ==
    IF text = <<>> THEN <<>>
    ELSE LET words == SplitWords(text)
             sentences == split_into_sentences(text, hasNltk, breaks)
             blocks == ReSplit(<<Lit(<<"\n", "\n">>)>>, text)
             paragraphs == SelectSeq([j \in 1..Len(blocks) |-> Strip(blocks[j])],
                                     NonEmpty)
         IN  [word_count |-> Len(words),
              sentence_count |-> Len(sentences),
              paragraph_count |-> Len(paragraphs),
              character_count |-> Len(text),
              character_count_no_spaces |->
                  Cardinality({i \in 1..Len(text) : text[i] # " "}),
              avg_words_per_sentence |->
                  IF sentences # <<>> THEN Round1(Len(words), Len(sentences))
                  ELSE Round1(Len(words), 1),
              avg_chars_per_word |->
                  IF words # <<>> THEN Round1(SumLen(words), Len(words)) ELSE 0,
              estimated_reading_time_minutes |-> Round1(Len(words), ReadingWpm),
              estimated_speaking_time_minutes |-> Round1(Len(words), SpeakingWpm)]
\* the dict returned by create_text_summary_stats; {} is the empty function.
\* The four rounded fields are in tenths.
create_text_summary_stats(text, hasNltk, breaks) ==
    IF text = <<>> THEN <<>>
    ELSE LET words == SplitWords(text)
             sentences == split_into_sentences(text, hasNltk, breaks)
             blocks == ReSplit(<<Lit(<<"\n", "\n">>)>>, text)
             paragraphs == SelectSeq([j \in 1..Len(blocks) |-> Strip(blocks[j])],
                                     NonEmpty)
         IN  [word_count |-> Len(words),
              sentence_count |-> Len(sentences),
              paragraph_count |-> Len(paragraphs),
              character_count |-> Len(text),
              character_count_no_spaces |->
                  Cardinality({i \in 1..Len(text) : text[i] # " "}),
              avg_words_per_sentence |->
                  IF sentences # <<>> THEN Round1(Len(words), Len(sentences)) ELSE 0,
              avg_chars_per_word |->
                  IF words # <<>> THEN Round1(SumLen(words), Len(words)) ELSE 0,
              estimated_reading_time_minutes |-> Round1(Len(words), ReadingWpm),
              estimated_speaking_time_minutes |-> Round1(Len(words), SpeakingWpm)]

(***************************************************************************)
(* json.loads, as far as the parsers use it.  A decoded value is a record  *)
(*   [k |-> "list", v |-> <<values>>]     [k |-> "str",   v |-> text]      *)
(*   [k |-> "dict", v |-> <<<<key, value>>, ...>>]                         *)
(*   [k |-> "num",  v |-> lexeme]         [k |-> "const", v |-> lexeme]    *)
(* A parse step returns [ok, val, next]; ok = FALSE is JSONDecodeError.    *)
(* The texts of the model hold no backslash, so string escapes are left    *)
(* out: a backslash ends the parse as an error.                            *)
(***************************************************************************)
JsonWs == {" ", "\t", "\n", "\r"}
ControlChars == {"\n", "\t", "\r"}
DecodeError == [ok |-> FALSE]
Good(val, next) == [ok |-> TRUE, val |-> val, next |-> next]

\* WHITESPACE.match(s, i).end()
SkipWs(s, i) ==
    LET rest == {j \in i..Len(s) : s[j] \notin JsonWs}
    IN  IF rest = {} THEN (IF i > Len(s) THEN i ELSE Len(s) + 1) ELSE SetMin(rest)

CharAt(s, i) == IF i >= 1 /\ i <= Len(s) THEN s[i] ELSE ""

\* NUMBER_RE = (-?(?:0|[1-9]\d*))(\.\d+)?([eE][-+]?\d+)?
Opt(S) == Cls(S, 0, 1)
IntParts == {<<Opt({"-"}), Lit(<<"0">>)>>,
             <<Opt({"-"}), One(DigitSet \ {"0"}), Star(DigitSet)>>}
FracParts == {<<>>, <<Lit(<<".">>), Plus(DigitSet)>>}
ExpParts == {<<>>, <<One({"e", "E"}), Opt({"-", "+"}), Plus(DigitSet)>>}
NumberPatterns == {a \o b \o c : a \in IntParts, b \in FracParts, c \in ExpParts}
\* end of the number at i: the optional parts are greedy, so the longest
\* of the matches; 0 when there is none
NumberEnd(s, i) ==
    LET ends == {Match(p, 1, s, i)[Len(p)] :
                    p \in {q \in NumberPatterns : Match(q, 1, s, i) # Fail}}
    IN  IF ends = {} THEN 0 ELSE SetMax(ends)

JsonConstants == <<<<"n","u","l","l">>, <<"t","r","u","e">>, <<"f","a","l","s","e">>,
                   <<"N","a","N">>, <<"I","n","f","i","n","i","t","y">>,
                   <<"-","I","n","f","i","n","i","t","y">>>>

\* scanstring(s, i): i is the position after the opening quote
ParseString(s, i) ==
    LET stops == {j \in i..Len(s) : s[j] \in {"\"", "\\"} \cup ControlChars}
    IN  IF stops = {} THEN DecodeError
        ELSE LET j == SetMin(stops)
             IN  IF s[j] = "\"" THEN Good([k |-> "str", v |-> SubSeq(s, i, j - 1)], j + 1)
                 ELSE DecodeError

\* dict(pairs): a key keeps the place of its first pair and the value of
\* its last
DictOf(pairs) ==
    LET firsts == {j \in 1..Len(pairs) :
                      \A h \in 1..(j - 1) : pairs[h][1] # pairs[j][1]}
        nth(n) == CHOOSE j \in firsts : Cardinality({h \in firsts : h < j}) = n - 1
        lastOf(key) == SetMax({j \in 1..Len(pairs) : pairs[j][1] = key})
    IN  [n \in 1..Cardinality(firsts) |->
            <<pairs[nth(n)][1], pairs[lastOf(pairs[nth(n)][1])][2]>>]

RECURSIVE ParseValue(_, _)
RECURSIVE ParseElements(_, _, _)
RECURSIVE ParsePairs(_, _, _)

\* scan_once(s, i)
ParseValue(s, i) ==
    LET c == CharAt(s, i)
        consts == {j \in 1..Len(JsonConstants) : LitAt(JsonConstants[j], FALSE, s, i)}
    IN  IF c = "" THEN DecodeError
        ELSE IF c = "\"" THEN ParseString(s, i + 1)
        ELSE IF c = "{" THEN
            \* JSONObject
            LET j == SkipWs(s, i + 1) IN
            IF CharAt(s, j) = "}" THEN Good([k |-> "dict", v |-> <<>>], j + 1)
            ELSE IF CharAt(s, j) = "\"" THEN ParsePairs(s, j + 1, <<>>)
            ELSE DecodeError
        ELSE IF c = "[" THEN
            \* JSONArray
            LET j == SkipWs(s, i + 1) IN
            IF CharAt(s, j) = "]" THEN Good([k |-> "list", v |-> <<>>], j + 1)
            ELSE ParseElements(s, j, <<>>)
        ELSE IF consts # {} THEN
            LET w == JsonConstants[SetMin(consts)]
            IN  Good([k |-> "const", v |-> w], i + Len(w))
        ELSE IF NumberEnd(s, i) # 0 THEN
            Good([k |-> "num", v |-> SubSeq(s, i, NumberEnd(s, i) - 1)], NumberEnd(s, i))
        ELSE DecodeError

\* the loop of JSONArray: a value, then "]" or "," and the next value
ParseElements(s, i, acc) ==
    LET r == ParseValue(s, i) IN
    IF ~r.ok THEN DecodeError
    ELSE LET j == SkipWs(s, r.next)
             values == Append(acc, r.val)
         IN  IF CharAt(s, j) = "]" THEN Good([k |-> "list", v |-> values], j + 1)
             ELSE IF CharAt(s, j) = "," THEN ParseElements(s, SkipWs(s, j + 1), values)
             ELSE DecodeError

\* the loop of JSONObject: i is the position after the key's opening quote
ParsePairs(s, i, acc) ==
    LET key == ParseString(s, i) IN
    IF ~key.ok THEN DecodeError
    ELSE LET colon == SkipWs(s, key.next) IN
         IF CharAt(s, colon) # ":" THEN DecodeError
         ELSE LET r == ParseValue(s, SkipWs(s, colon + 1)) IN
              IF ~r.ok THEN DecodeError
              ELSE LET j == SkipWs(s, r.next)
                       pairs == Append(acc, <<key.val.v, r.val>>)
                   IN  IF CharAt(s, j) = "}"
                       THEN Good([k |-> "dict", v |-> DictOf(pairs)], j + 1)
                       ELSE IF CharAt(s, j) = "," /\ CharAt(s, SkipWs(s, j + 1)) = "\""
                       THEN ParsePairs(s, SkipWs(s, j + 1) + 1, pairs)
                       ELSE DecodeError

\* json.loads(s): one value between optional whitespace, nothing after it
json_loads(s) ==
    LET r == ParseValue(s, SkipWs(s, 1)) IN
    IF r.ok /\ SkipWs(s, r.next) > Len(s) THEN r ELSE DecodeError

(***************************************************************************)
(* FlashcardGenerator._parse_flashcard_json, QuizGenerator._parse_quiz_json*)
(* and their fallbacks                                                     *)
(***************************************************************************)
\* the pattern with a lazy .*?
json_pattern_lazy == <<Lit(<<"[">>), NotCls({}, 0, Unbounded, TRUE), Lit(<<"]">>)>>
\* r'\[.*\]' with re.DOTALL
json_pattern == <<Lit(<<"[">>), NotCls({}, 0, Unbounded, FALSE), Lit(<<"]">>)>>

\* re.search(pat, s).group(0); the caller has checked that there is a match
SearchGroup0(pat, s) ==
    LET p == SetMin({i \in 1..Len(s) : Match(pat, 1, s, i) # Fail})
    IN  SubSeq(s, p, Match(pat, 1, s, p)[Len(pat)] - 1)

\* the json.loads call of the try block
StrictParse(json_text) ==
    IF ReFound(json_pattern, json_text)
    THEN json_loads(SearchGroup0(json_pattern, json_text))
    ELSE json_loads(json_text)

StrVal(w) == [k |-> "str", v |-> w]
DictVal(pairs) == [k |-> "dict", v |-> pairs]
ListVal(items) == [k |-> "list", v |-> items]

\* the slice left out: the whole list
TakeAll(s, n) == s
\* s[:n]; a negative n counts from the end
Take(s, n) ==
    SubSeq(s, 1, IF n < 0 THEN (IF Len(s) + n < 0 THEN 0 ELSE Len(s) + n)
                 ELSE IF Len(s) < n THEN Len(s) ELSE n)

\* [line.strip() for line in text.split('\n') if line.strip()]
StrippedLines(text) ==
    LET lines == Split(text, "\n")
    IN  SelectSeq([j \in 1..Len(lines) |-> Strip(lines[j])], NonEmpty)

\* line.replace('**', '').replace('*', '').strip()
NotStar(c) == c # "*"
Unmark(line) == Strip(SelectSeq(line, NotStar))

FlashcardNote == <<"G","e","n","e","r","a","t","e","d"," ","f","r","o","m"," ","t","e","x","t"," ","p","a","r","s","i","n","g"," ","(","m","a","y"," ","n","e","e","d"," ","f","o","r","m","a","t","t","i","n","g",")">>
FlashcardCard(front, back) ==
    DictVal(<< <<<<"f","r","o","n","t">>, StrVal(front)>>,
               <<<<"b","a","c","k">>, StrVal(back)>>,
               <<<<"t","y","p","e">>, StrVal(<<"a","u","t","o","-","g","e","n","e","r","a","t","e","d">>)>>,
               <<<<"n","o","t","e">>, StrVal(FlashcardNote)>> >>)

FlashcardFallbackCap == 10
\* pairs that overlap: range(0, len(lines) - 1) without the step of 2
_fallback_flashcard_sliding(text) ==
    LET lines == StrippedLines(text)
        firsts == [j \in 1..(IF Len(lines) = 0 THEN 0 ELSE Len(lines) - 1) |-> j]
        BothNonEmpty(i) == Unmark(lines[i]) # <<>> /\ Unmark(lines[i + 1]) # <<>>
        kept == SelectSeq(firsts, BothNonEmpty)
        flashcards == [j \in 1..Len(kept) |->
                          FlashcardCard(Unmark(lines[kept[j]]), Unmark(lines[kept[j] + 1]))]
    IN  ListVal(Take(flashcards, FlashcardFallbackCap))
_fallback_flashcard_parsing(text) ==
    LET lines == StrippedLines(text)
        \* range(0, len(lines) - 1, 2), as 1-based indices
        firsts == [j \in 1..(Len(lines) \div 2) |-> 2 * j - 1]
        BothNonEmpty(i) == Unmark(lines[i]) # <<>> /\ Unmark(lines[i + 1]) # <<>>
        kept == SelectSeq(firsts, BothNonEmpty)
        flashcards == [j \in 1..Len(kept) |->
                          FlashcardCard(Unmark(lines[kept[j]]), Unmark(lines[kept[j] + 1]))]
    IN  ListVal(Take(flashcards, FlashcardFallbackCap))

QuizNote == <<"Q","u","e","s","t","i","o","n"," ","e","x","t","r","a","c","t","e","d"," ","f","r","o","m"," ","t","e","x","t"," ","(","f","o","r","m","a","t","t","i","n","g"," ","m","a","y"," ","b","e"," ","i","n","c","o","m","p","l","e","t","e",")">>
QuizQuestion(line) ==
    DictVal(<< <<<<"q","u","e","s","t","i","o","n">>, StrVal(line)>>,
               <<<<"t","y","p","e">>, StrVal(<<"t","e","x","t">>)>>,
               <<<<"n","o","t","e">>, StrVal(QuizNote)>> >>)

QuizFallbackCap == 5
\* the quiz fallback written as the flashcard fallback is: one question per
\* pair of lines
_fallback_question_pairs(text) ==
    LET cards == _fallback_flashcard_parsing(text).v
    IN  ListVal(Take([j \in 1..Len(cards) |-> QuizQuestion(cards[j].v[1][2].v)],
                     QuizFallbackCap))
_fallback_question_parsing(text) ==
    LET lines == Split(text, "\n")
        stripped == [j \in 1..Len(lines) |-> Strip(lines[j])]
        IsQuestion(line) ==
            line # <<>> /\ ((\E i \in 1..Len(line) : line[i] = "?") \/ line[Len(line)] = ".")
        kept == SelectSeq(stripped, IsQuestion)
        questions == [j \in 1..Len(kept) |-> QuizQuestion(kept[j])]
    IN  ListVal(Take(questions, QuizFallbackCap))

\* the value returned; path tells which branch produced it
_parse_flashcard_json(json_text) ==
    LET r == StrictParse(json_text) IN
    IF r.ok THEN [path |-> "strict", val |-> r.val]
    ELSE [path |-> "fallback", val |-> _fallback_flashcard_parsing(json_text)]

_parse_quiz_json(json_text) ==
    LET r == StrictParse(json_text) IN
    IF r.ok THEN [path |-> "strict", val |-> r.val]
    ELSE [path |-> "fallback", val |-> _fallback_question_parsing(json_text)]

(***************************************************************************)
(* Bounded inputs                                                          *)
(***************************************************************************)
\* all texts over alphabet A of length at most n
TextsUpTo(A, n) == UNION {[1..k -> A] : k \in 0..n}

MaxLen == 4
CleanAlphabet == {"s", "o", " ", ",", ".", LongS}
CharTexts == TextsUpTo(CleanAlphabet, MaxLen)

\* texts of 1..MaxWords words joined by single spaces
MaxWords == 3
Vocabulary == {<<"y","o","u">>, <<"k","n","o","w">>, <<"u","m">>,
               <<"k","i","n","d">>, <<"o","f">>, <<"s","o">>,
               <<"r","i","g","h","t","?">>, <<"D","a","t","a">>}
WordTexts ==
    {Join(ws, <<" ">>) : ws \in UNION {[1..k -> Vocabulary] : k \in 1..MaxWords}}

\* transcripts of 1..MaxLines lines: [timestamp] [speaker label] body
MaxLines == 2
Timestamps == {<<>>, <<"[","0",":","0","1",":","1","5","]"," ">>}
Labels == {<<>>, <<"S","p","e","a","k","e","r"," ","1",":">>,
           <<"S","P","E","A","K","E","R","_","0",":">>}
Bodies == {<<" ","h","i"," ","t","h","e","r","e">>}
TranscriptLines == {ts \o lb \o b : ts \in Timestamps, lb \in Labels, b \in Bodies}
Transcripts ==
    {Join(ls, <<"\n">>) : ls \in UNION {[1..k -> TranscriptLines] : k \in 1..MaxLines}}

\* the transcript of the specification's first example scenario
ExampleTranscript ==
    <<"[","0","0",":","0","1",":","1","5","]"," ","S","p","e","a","k","e","r"," ","1",":"," ","U","m",","," ","s","o",","," ","l","i","k","e",","," ">>
    \o <<"m","a","c","h","i","n","e"," ","l","e","a","r","n","i","n","g"," ","i","s",","," ","y","o","u"," ","k","n","o","w",","," ","p","o","w","e","r","f","u","l",".">>
ExampleCleaned == <<"M","a","c","h","i","n","e"," ","l","e","a","r","n","i","n","g"," ","i","s"," ","p","o","w","e","r","f","u","l",".">>

\* empty and whitespace-only texts
BlankTexts == TextsUpTo(WhiteSet, MaxLen)

CleanInputs ==
    CharTexts \cup WordTexts \cup Transcripts \cup {ExampleTranscript} \cup BlankTexts

(***************************************************************************)
(* The normalizer as a state machine: a raw transcript is cleaned          *)
(* (preprocess_audio_transcript), and the cleaned text is cleaned again.   *)
(***************************************************************************)
InitClean ==
    /\ pc = "raw"
    /\ input \in CleanInputs
    /\ nltk = FALSE
    /\ cuts = {}
    /\ ret = <<>>
    /\ ret2 = <<>>
    /\ KeywordsIdle
    /\ AppIdle

\* preprocess_audio_transcript(input)
CleanTranscript ==
    /\ pc = "raw"
    /\ ret' = clean_transcript(input)
    /\ pc' = "cleaned"
    /\ UNCHANGED <<input, nltk, cuts, ret2, kwVars, appVars>>

\* clean_transcript applied to an already cleaned transcript
CleanAgain ==
    /\ pc = "cleaned"
    /\ ret2' = clean_transcript(ret)
    /\ pc' = "recleaned"
    /\ UNCHANGED <<input, nltk, cuts, ret, kwVars, appVars>>

NextClean == CleanTranscript \/ CleanAgain

SpecClean == InitClean /\ [][NextClean]_vars

(***************************************************************************)
(* Properties of the normalizer                                            *)
(***************************************************************************)
\* C1: Normalizer stability: clean_transcript(clean_transcript(s)) equals
\* clean_transcript(s) for every s; a second pass changes nothing.
NormalizerStable == pc = "recleaned" => ret2 = ret

\* C2: the example transcript (timestamp, speaker label, comma-separated
\* fillers) is normalized to "Machine learning is powerful."
ExampleNormalized ==
    (pc = "cleaned" /\ input = ExampleTranscript) => ret = ExampleCleaned

\* the filler tokens listed by the specification
FillerTokens ==
    {<<"u","m">>, <<"u","h">>, <<"e","r">>, <<"a","h">>, <<"l","i","k","e">>,
     <<"y","o","u"," ","k","n","o","w">>, <<"s","o">>, <<"w","e","l","l">>,
     <<"a","c","t","u","a","l","l","y">>, <<"b","a","s","i","c","a","l","l","y">>,
     <<"l","i","t","e","r","a","l","l","y">>, <<"k","i","n","d"," ","o","f">>,
     <<"s","o","r","t"," ","o","f">>, <<"t","y","p","e"," ","o","f">>,
     <<"I"," ","m","e","a","n">>, <<"y","o","u"," ","s","e","e">>,
     <<"l","e","t"," ","m","e"," ","s","e","e">>, <<"l","e","t","'","s"," ","s","e","e">>,
     <<"r","i","g","h","t","?">>, <<"o","k","a","y","?">>,
     <<"a","l","r","i","g","h","t","?">>}
\* token t stands at position i of s as a whole word, compared without case
TokenAt(t, s, i) ==
    /\ i + Len(t) - 1 <= Len(s)
    /\ \A j \in 1..Len(t) : Lower(s[i + j - 1]) = Lower(t[j])
    /\ WordBoundary(s, i)
    /\ t[Len(t)] \in WordSet => WordBoundary(s, i + Len(t))
HasFillerToken(s) == \E t \in FillerTokens : \E i \in 1..Len(s) : TokenAt(t, s, i)

\* C3: the output of clean_transcript contains none of the listed filler
\* tokens as a whole word (case-insensitive).
NoFillerTokens == pc = "cleaned" => ~HasFillerToken(ret)

\* the speaker labels that lead a line of raw, directly or after the line's
\* timestamp
LabelBodies == {Tail(SpeakerLabel), Tail(MachineLabel)}
TimestampLead == TimestampPattern("[", "]") \o <<Star(WhiteSet)>>
LabelStarts(raw) ==
    LET lines == {i \in 1..Len(raw) : LineStart(raw, i)}
    IN  lines \cup {Match(TimestampLead, 1, raw, i)[Len(TimestampLead)] :
                      i \in {j \in lines : Match(TimestampLead, 1, raw, j) # Fail}}
LeadingLabels(raw) ==
    {SubSeq(raw, i, Match(lb, 1, raw, i)[Len(lb)] - 1) :
       <<lb, i>> \in {x \in LabelBodies \X LabelStarts(raw) :
                        Match(x[1], 1, raw, x[2]) # Fail}}
Occurs(w, s) == \E i \in 1..Len(s) : LitAt(w, FALSE, s, i)

\* C4: a speaker label that leads any line of the raw input (also of a
\* multi-line input, also after a timestamp) is absent from the output.
LeadingLabelsRemoved ==
    pc = "cleaned" => \A lb \in LeadingLabels(input) : ~Occurs(lb, ret)

DoubledPunct(s) == \E i \in 1..(Len(s) - 1) : s[i] \in PunctSet /\ s[i + 1] \in PunctSet

\* C5: the output of clean_transcript has no leading or trailing whitespace
\* and no run of two or more consecutive marks of , . ! ? ; :
TrimmedNoDoubledPunct ==
    pc = "cleaned" => Strip(ret) = ret /\ ~DoubledPunct(ret)

(***************************************************************************)
(* The statistics computer as a state machine: the environment fixes       *)
(* whether NLTK's tokenizer is usable; one call computes the statistics of *)
(* the input, with the tokenizer's breaks chosen by the tokenizer.         *)
(***************************************************************************)
\* texts of 0..MaxStatsWords words, separated by a space or a blank line
MaxStatsWords == 3
StatsVocabulary == {<<"O","n","e">>, <<"t","w","o">>, <<"t","h","r","e","e",".">>,
                    <<"F","o","u","r"," ","f","i","v","e",".">>, <<"n","e","t","w","o","r","k","s","!">>}
StatsSeparators == {<<" ">>, <<"\n", "\n">>}
StatsExample == <<"O","n","e"," ","t","w","o"," ","t","h","r","e","e","."," ","F","o","u","r"," ","f","i","v","e",".">>
StatsInputs ==
    {<<>>, <<" ">>, StatsExample}
    \cup UNION {{Join(ws, sep) : ws \in [1..k -> StatsVocabulary]} :
                   <<k, sep>> \in (1..MaxStatsWords) \X StatsSeparators}

InitStats ==
    /\ pc = "call"
    /\ input \in StatsInputs
    /\ nltk \in BOOLEAN
    /\ cuts = {}
    /\ ret = <<>>
    /\ ret2 = <<>>
    /\ KeywordsIdle
    /\ AppIdle

\* processor.create_text_summary_stats(input)
ComputeStats ==
    /\ pc = "call"
    /\ \E breaks \in (IF nltk THEN SUBSET PunktCandidates(input) ELSE {{}}) :
          /\ cuts' = breaks
          /\ ret' = create_text_summary_stats(input, nltk, breaks)
    /\ pc' = "stats"
    /\ UNCHANGED <<input, nltk, ret2, kwVars, appVars>>

NextStats == ComputeStats

SpecStats == InitStats /\ [][NextStats]_vars

StatsFields == {"word_count", "sentence_count", "paragraph_count",
                "character_count", "character_count_no_spaces",
                "avg_words_per_sentence", "avg_chars_per_word",
                "estimated_reading_time_minutes",
                "estimated_speaking_time_minutes"}

\* C6: the statistics of the empty string hold every numeric field, each
\* equal to zero.
EmptyStatsAllZero ==
    (pc = "stats" /\ input = <<>>) =>
        /\ StatsFields \subseteq DOMAIN ret
        /\ \A f \in StatsFields : ret[f] = 0

\* C7 as stated: every sentence is counted; the example text has 5 words,
\* 2 sentences and 2.5 words per sentence.
ExampleCountsTwoSentences ==
    (pc = "stats" /\ input = StatsExample) =>
        /\ ret.word_count = 5
        /\ ret.sentence_count = 2
        /\ ret.avg_words_per_sentence = 25

\* C7 amended: only fragments longer than 10 characters are counted, so the
\* example text ("Four five." has exactly 10 characters) has 5 words, 1
\* sentence and 5.0 words per sentence; and the counted sentences, each of
\* more than 10 characters, fit in the text.
ExampleCountsLongSentences ==
    pc = "stats" =>
        /\ input = StatsExample =>
              /\ ret.word_count = 5
              /\ ret.sentence_count = 1
              /\ ret.avg_words_per_sentence = 50
        /\ input # <<>> =>
              ret.sentence_count * (MinSentenceLen + 1) <= Len(input)

\* the tokenizer split the example text in two and the second sentence was
\* dropped
ExampleSplitInTwo ==
    /\ pc = "stats" /\ input = StatsExample /\ nltk /\ cuts # {}
    /\ ret.sentence_count = 1

(***************************************************************************)
(* The response parsers as a state machine: the text a model call returned *)
(* is handed to the flashcard parser and to the quiz parser.               *)
(***************************************************************************)
\* the character ` of a markdown fence
Backtick == "U+0060"
\* serialization of a decoded value of strings, lists and dicts
RECURSIVE Serialize(_)
RECURSIVE SerializeAll(_, _)
Serialize(val) ==
    CASE val.k = "str"  -> <<"\"">> \o val.v \o <<"\"">>
      [] val.k = "list" -> <<"[">> \o SerializeAll(val.v, FALSE) \o <<"]">>
      [] val.k = "dict" -> <<"{">> \o SerializeAll(val.v, TRUE) \o <<"}">>
SerializeAll(items, pairs) ==
    IF items = <<>> THEN <<>>
    ELSE LET one == IF pairs
                    THEN <<"\"">> \o items[1][1] \o <<"\"", ":">> \o Serialize(items[1][2])
                    ELSE Serialize(items[1])
         IN  IF Len(items) = 1 THEN one
             ELSE one \o <<",">> \o SerializeAll(Tail(items), pairs)

MaxParseLen == 3
ParseAlphabet == {"[", "]", "{", "}", "1", "\n", "?", "*"}
ParseCharTexts == TextsUpTo(ParseAlphabet, MaxParseLen)

\* a flashcard and a multiple-choice question, as the prompts ask for them
RecordPool ==
    {DictVal(<< <<<<"f","r","o","n","t">>, StrVal(<<"Q","1">>)>>,
                <<<<"b","a","c","k">>, StrVal(<<"A","1">>)>> >>),
     DictVal(<< <<<<"q","u","e","s","t","i","o","n">>, StrVal(<<"Q","2">>)>>,
                <<<<"o","p","t","i","o","n","s">>,
                  ListVal(<<StrVal(<<"A">>), StrVal(<<"B">>)>>)>> >>)}
MaxRecords == 2
RecordLists == UNION {[1..k -> RecordPool] : k \in 0..MaxRecords}
ProseBefore == {<<>>, <<"H","e","r","e"," ","a","r","e"," ","c","a","r","d","s",":">> \o <<"\n">>,
                <<Backtick,Backtick,Backtick,"j","s","o","n">> \o <<"\n">>,
                <<"N","o","t","e"," ","1","]"," ">>, <<"S","e","e"," ","[","1","]",":"," ">>}
ProseAfter == {<<>>, <<"\n">> \o <<"E","n","j","o","y","!">>, <<"\n">> \o <<Backtick,Backtick,Backtick>>,
               <<" ","[","e","n","d">>, <<" ","(","s","e","e"," ","[","2","]",")">>}
Wrap(before, records, after) == before \o Serialize(ListVal(records)) \o after
WrappedTexts ==
    {Wrap(b, rs, a) : <<b, rs, a>> \in ProseBefore \X RecordLists \X ProseAfter}

\* texts of 0..MaxFallbackLines equal lines
MaxFallbackLines == 22
FallbackLines == {<<"Q","?">>, <<"*","A","*">>}
Repeat(line, n) == Join([j \in 1..n |-> line], <<"\n">>)
LineTexts == {Repeat(line, n) : <<line, n>> \in FallbackLines \X (0..MaxFallbackLines)}

\* four lines, question / answer / question / answer
PairedExample == <<"Q","?","\n","A",".","\n","Q","?","\n","A",".">>
\* five lines: the second is only emphasis markers, the fifth has no partner
MarkerOnlyExample == <<"W","h","y","?","\n","*","*","\n","H","o","w","?","\n"," ","*","S","o","*","\n","E","n","d">>
PairedTexts == {PairedExample, MarkerOnlyExample,
                <<"W","h","y","?","\n","*","*","I","t","*","*","\n","H","o","w","?","\n","S","o">>}

ParseInputs == ParseCharTexts \cup WrappedTexts \cup LineTexts \cup PairedTexts

NotCalled == [path |-> "none", val |-> ListVal(<<>>)]

InitParse ==
    /\ pc = "call"
    /\ input \in ParseInputs
    /\ nltk = FALSE
    /\ cuts = {}
    /\ ret = NotCalled
    /\ ret2 = NotCalled
    /\ KeywordsIdle
    /\ AppIdle

\* self._parse_flashcard_json(input)
ParseFlashcards ==
    /\ ret = NotCalled
    /\ ret' = _parse_flashcard_json(input)
    /\ pc' = IF ret2 = NotCalled THEN "call" ELSE "parsed"
    /\ UNCHANGED <<input, nltk, cuts, ret2, kwVars, appVars>>

\* self._parse_quiz_json(input)
ParseQuiz ==
    /\ ret2 = NotCalled
    /\ ret2' = _parse_quiz_json(input)
    /\ pc' = IF ret = NotCalled THEN "call" ELSE "parsed"
    /\ UNCHANGED <<input, nltk, cuts, ret, kwVars, appVars>>

NextParse == ParseFlashcards \/ ParseQuiz

SpecParse == InitParse /\ [][NextParse]_vars

\* C8: for any text both parsers return a sequence and never raise; what
\* cannot be parsed is recovered by the fallback.
ParsersReturnSequence ==
    /\ ret.path \in {"none", "strict", "fallback"} /\ ret.val.k = "list"
    /\ ret2.path \in {"none", "strict", "fallback"} /\ ret2.val.k = "list"

HasChar(w, c) == \E i \in 1..Len(w) : w[i] = c
\* r, a parser's result, holds exactly the records rs
Returns(r, rs) == r = NotCalled \/ (r.path = "strict" /\ r.val = ListVal(rs))

\* C9 as stated: for a text made of any prose, a valid JSON array of
\* objects and any prose, the parsers return exactly the records of the
\* array, in order.
WrappedArrayReturned ==
    \A b \in ProseBefore, rs \in RecordLists, a \in ProseAfter :
        input = Wrap(b, rs, a) => Returns(ret, rs) /\ Returns(ret2, rs)

\* C9 amended: the same, for prose before the array that holds no "[" and
\* prose after the array that holds no "]".
WrappedArrayReturnedNoBrackets ==
    \A b \in {p \in ProseBefore : ~HasChar(p, "[")}, rs \in RecordLists,
       a \in {p \in ProseAfter : ~HasChar(p, "]")} :
        input = Wrap(b, rs, a) => Returns(ret, rs) /\ Returns(ret2, rs)

\* both parsers have returned the two records of an array wrapped in prose
WrappedArrayParsed ==
    /\ pc = "parsed"
    /\ \E rs \in RecordLists :
          /\ Len(rs) = 2
          /\ input = Wrap(<<"H","e","r","e"," ","a","r","e"," ","c","a","r","d","s",":">> \o <<"\n">>, rs,
                          <<"\n">> \o <<"E","n","j","o","y","!">>)
          /\ ret.path = "strict" /\ ret.val = ListVal(rs)
          /\ ret2.path = "strict" /\ ret2.val = ListVal(rs)

\* C10: when the fallback is taken, the flashcard parser returns at most 10
\* records and the quiz parser at most 5.
FallbackCapped ==
    /\ ret.path = "fallback" => Len(ret.val.v) <= 10
    /\ ret2.path = "fallback" => Len(ret2.val.v) <= 5

\* both fallbacks have cut a longer list of candidates down to their cap
FallbackCutDown ==
    /\ pc = "parsed"
    /\ ret.path = "fallback" /\ ret2.path = "fallback"
    /\ Len(StrippedLines(input)) > 2 * 10
    /\ Len(ret.val.v) = 10 /\ Len(ret2.val.v) = 5

\* the value of a key of a decoded record, and whether the record has the key
HasField(rec, key) == \E j \in 1..Len(rec.v) : rec.v[j][1] = key
Field(rec, key) == rec.v[CHOOSE j \in 1..Len(rec.v) : rec.v[j][1] = key][2].v

\* the non-empty trimmed lines of a text taken two at a time, emphasis
\* markers stripped, as <<line i, line i+1>>; a pair with an empty side is
\* left out
BothSides(pair) == pair[1] # <<>> /\ pair[2] # <<>>
LinePairs(text) ==
    LET lines == StrippedLines(text)
    IN  SelectSeq([j \in 1..(Len(lines) \div 2) |->
                      <<Unmark(lines[2 * j - 1]), Unmark(lines[2 * j])>>],
                  BothSides)
\* the trimmed lines of a text that hold a "?" or end in "."
LooksLikeQuestion(line) == line # <<>> /\ (HasChar(line, "?") \/ line[Len(line)] = ".")
QuestionLines(text) ==
    LET lines == Split(text, "\n")
    IN  SelectSeq([j \in 1..Len(lines) |-> Strip(lines[j])], LooksLikeQuestion)

Least(a, b) == IF a < b THEN a ELSE b
BothFellBack == pc = "parsed" /\ ret.path = "fallback" /\ ret2.path = "fallback"
\* the flashcards are the line pairs, front = line i, back = line i+1
CardsAreLinePairs ==
    /\ Len(ret.val.v) = Least(Len(LinePairs(input)), FlashcardFallbackCap)
    /\ \A j \in 1..Len(ret.val.v) :
          /\ Field(ret.val.v[j], <<"f","r","o","n","t">>) = LinePairs(input)[j][1]
          /\ Field(ret.val.v[j], <<"b","a","c","k">>) = LinePairs(input)[j][2]

fallback_stop_words ==
    {<<"i">>, <<"m","e">>, <<"m","y">>, <<"m","y","s","e","l","f">>,
     <<"w","e">>, <<"o","u","r">>, <<"o","u","r","s">>,
     <<"o","u","r","s","e","l","v","e","s">>, <<"y","o","u">>,
     <<"y","o","u","r">>, <<"y","o","u","r","s">>,
     <<"y","o","u","r","s","e","l","f">>,
     <<"y","o","u","r","s","e","l","v","e","s">>, <<"h","e">>,
     <<"h","i","m">>, <<"h","i","s">>, <<"h","i","m","s","e","l","f">>,
     <<"s","h","e">>, <<"h","e","r">>, <<"h","e","r","s">>,
     <<"h","e","r","s","e","l","f">>, <<"i","t">>, <<"i","t","s">>,
     <<"i","t","s","e","l","f">>, <<"t","h","e","y">>, <<"t","h","e","m">>,
     <<"t","h","e","i","r">>, <<"t","h","e","i","r","s">>,
     <<"t","h","e","m","s","e","l","v","e","s">>, <<"w","h","a","t">>,
     <<"w","h","i","c","h">>, <<"w","h","o">>, <<"w","h","o","m">>,
     <<"t","h","i","s">>, <<"t","h","a","t">>, <<"t","h","e","s","e">>,
     <<"t","h","o","s","e">>, <<"a","m">>, <<"i","s">>, <<"a","r","e">>,
     <<"w","a","s">>, <<"w","e","r","e">>, <<"b","e">>, <<"b","e","e","n">>,
     <<"b","e","i","n","g">>, <<"h","a","v","e">>, <<"h","a","s">>,
     <<"h","a","d">>, <<"h","a","v","i","n","g">>, <<"d","o">>,
     <<"d","o","e","s">>, <<"d","i","d">>, <<"d","o","i","n","g">>, <<"a">>,
     <<"a","n">>, <<"t","h","e">>, <<"a","n","d">>, <<"b","u","t">>,
     <<"i","f">>, <<"o","r">>, <<"b","e","c","a","u","s","e">>, <<"a","s">>,
     <<"u","n","t","i","l">>, <<"w","h","i","l","e">>, <<"o","f">>,
     <<"a","t">>, <<"b","y">>, <<"f","o","r">>, <<"w","i","t","h">>,
     <<"t","h","r","o","u","g","h">>, <<"d","u","r","i","n","g">>,
     <<"b","e","f","o","r","e">>, <<"a","f","t","e","r">>,
     <<"a","b","o","v","e">>, <<"b","e","l","o","w">>, <<"u","p">>,
     <<"d","o","w","n">>, <<"i","n">>, <<"o","u","t">>, <<"o","n">>,
     <<"o","f","f">>, <<"o","v","e","r">>, <<"u","n","d","e","r">>,
     <<"a","g","a","i","n">>, <<"f","u","r","t","h","e","r">>,
     <<"t","h","e","n">>, <<"o","n","c","e">>}

\* string.punctuation
string_punctuation ==
    {"!", "\"", "#", "$", "%", "&", "'", "(", ")", "*", "+", ",", "-", ".", "/",
     ":", ";", "<", "=", ">", "?", "@", "[", "\\", "]", "^", "_", Backtick,
     "{", "|", "}", "~"}
NotPunctuation(c) == c \notin string_punctuation

\* str.isalpha(): not empty and letters only
Letters == AsciiLetters \cup {LongS}
IsAlpha(word) == word # <<>> /\ \A i \in 1..Len(word) : word[i] \in Letters

\* len(word) > 3
MinKeywordLen == 3
\* the list keywords: the words of the lower-cased text without punctuation
\* that are long enough, no stop words and alphabetic
KeywordList(text, stops) ==
    LET Keep(word) == Len(word) > MinKeywordLen /\ word \notin stops /\ IsAlpha(word)
    IN  SelectSeq(SplitWords(SelectSeq(MapLower(text), NotPunctuation)), Keep)

\* the dict a counting loop builds (d[x] = d.get(x, 0) + 1), as its items():
\* <<key, count>> in the order the keys were first inserted
CountItems(seq) ==
    LET firsts == {j \in 1..Len(seq) : \A h \in 1..(j - 1) : seq[h] # seq[j]}
        nth(n) == CHOOSE j \in firsts : Cardinality({h \in firsts : h < j}) = n - 1
    IN  [n \in 1..Cardinality(firsts) |->
           <<seq[nth(n)], Cardinality({h \in 1..Len(seq) : seq[h] = seq[nth(n)]})>>]

\* the place of item i with the items of equal count in reverse order
RankLastFirst(items, i) ==
    1 + Cardinality({j \in 1..Len(items) : items[j][2] > items[i][2]})
      + Cardinality({j \in (i + 1)..Len(items) : items[j][2] = items[i][2]})
\* the place of item i in sorted(items, key=lambda x: x[1], reverse=True):
\* after the items of larger count and, sorted() being stable also with
\* reverse=True, after the earlier items of equal count
Rank(items, i) ==
    1 + Cardinality({j \in 1..Len(items) : items[j][2] > items[i][2]})
      + Cardinality({j \in 1..(i - 1) : items[j][2] = items[i][2]})
SortedByCount(items) ==
    [p \in 1..Len(items) |-> items[CHOOSE i \in 1..Len(items) : Rank(items, i) = p]]

\* [key for key, count in items]
Keys(items) == [j \in 1..Len(items) |-> items[j][1]]

\* the whole ranking, not cut to num_keywords
extract_keywords_uncut(text, num_keywords, stops) ==
    Keys(SortedByCount(CountItems(KeywordList(text, stops))))
extract_keywords(text, num_keywords, stops) ==
    Keys(Take(SortedByCount(CountItems(KeywordList(text, stops))), num_keywords))

\* extract_keywords(text, 20)
TopicKeywords == 20
\* keyword_count >= 2
MinSentenceKeywords == 2

\* the keywords that occur in s (keyword in s)
KeywordsIn(keywords, s) == {j \in 1..Len(keywords) : Occurs(keywords[j], s)}
\* f"{words[i]} {words[i+1]}".lower() for i in range(len(words) - 1)
Phrases(words) ==
    [i \in 1..(Len(words) - 1) |-> MapLower(words[i] \o <<" ">> \o words[i + 1])]
\* the phrases one sentence adds to topic_candidates
SentenceCandidates(sentence, keywords) ==
    LET HasKeyword(phrase) == KeywordsIn(keywords, phrase) # {}
    IN  IF Cardinality(KeywordsIn(keywords, MapLower(sentence))) >= MinSentenceKeywords
        THEN SelectSeq(Phrases(SplitWords(sentence)), HasKeyword)
        ELSE <<>>
RECURSIVE TopicCandidates(_, _)
TopicCandidates(sentences, keywords) ==
    IF sentences = <<>> THEN <<>>
    ELSE SentenceCandidates(Head(sentences), keywords)
           \o TopicCandidates(Tail(sentences), keywords)

\* sorted_topics
SortedTopics(text, stops, hasNltk, breaks) ==
    SortedByCount(CountItems(TopicCandidates(
        split_into_sentences(text, hasNltk, breaks),
        extract_keywords(text, TopicKeywords, stops))))
\* the filter left out
AnyCount(item) == TRUE
\* if freq > 1
Repeated(item) == item[2] > 1
extract_topics(text, num_topics, stops, hasNltk, breaks) ==
    Keys(SelectSeq(Take(SortedTopics(text, stops, hasNltk, breaks), num_topics),
                   Repeated))

(***************************************************************************)
(* The keyword extractor as a state machine: a TextProcessor is built with *)
(* the stop words its environment provides, and extract_keywords is called *)
(* on a text and on the same text in upper case.                           *)
(***************************************************************************)
MaxKeywordWords == 3
KeywordVocabulary ==
    {<<"d","a","t","a">>, <<"D","a","t","a",",">>, <<"m","i","n","i","n","g">>,
     <<"d","e","e","p">>, <<"w","i","t","h">>, <<"t","h","e">>,
     <<LongS,"o","m","e">>, <<"m","o","r","e">>, <<"w","e","b","2">>}
KeywordTexts ==
    {Join(ws, <<" ">>) : ws \in UNION {[1..k -> KeywordVocabulary] : k \in 0..MaxKeywordWords}}

\* the count argument: 0, positive and negative
MaxCount == 2
Counts == (0 - MaxCount)..MaxCount

\* stopwords.words('english') is data of the NLTK installation; where it can
\* be loaded it holds the fallback words and may hold further ones
CorpusPool == {<<"m","o","r","e">>}
StopWordSets == {fallback_stop_words \cup extra : extra \in SUBSET CorpusPool}

InitKeywords ==
    /\ pc = "call"
    /\ input \in KeywordTexts
    /\ stop_words \in StopWordSets
    /\ num \in Counts
    /\ nltk = FALSE
    /\ cuts = {}
    /\ ret = <<>>
    /\ ret2 = <<>>
    /\ AppIdle

\* processor.extract_keywords(input, num)
ExtractKeywords ==
    /\ pc = "call"
    /\ ret' = extract_keywords(input, num, stop_words)
    /\ pc' = "keywords"
    /\ UNCHANGED <<input, nltk, cuts, ret2, kwVars, appVars>>

\* processor.extract_keywords(input.upper(), num)
ExtractKeywordsUpper ==
    /\ pc = "keywords"
    /\ ret2' = extract_keywords(MapUpper(input), num, stop_words)
    /\ pc' = "keywords_upper"
    /\ UNCHANGED <<input, nltk, cuts, ret, kwVars, appVars>>

NextKeywords == ExtractKeywords \/ ExtractKeywordsUpper

SpecKeywords == InitKeywords /\ [][NextKeywords]_vars

\* the number of times x occurs in seq, and where it occurs first
CountOf(seq, x) == Cardinality({h \in 1..Len(seq) : seq[h] = x})
FirstOf(seq, x) == SetMin({h \in 1..Len(seq) : seq[h] = x})
\* x comes before y in the order (count descending, first occurrence
\* ascending) of the elements of seq
RanksBefore(seq, x, y) ==
    \/ CountOf(seq, x) > CountOf(seq, y)
    \/ CountOf(seq, x) = CountOf(seq, y) /\ FirstOf(seq, x) < FirstOf(seq, y)
\* result is the first n entries of the distinct elements of seq that occur
\* at least least times, in that order
RankedPrefix(result, seq, n, least) ==
    LET eligible == {seq[h] : h \in {g \in 1..Len(seq) : CountOf(seq, seq[g]) >= least}}
        got == {result[i] : i \in 1..Len(result)}
    IN  /\ got \subseteq eligible
        /\ Len(result) = Least(n, Cardinality(eligible))
        /\ \A i, j \in 1..Len(result) : i < j => RanksBefore(seq, result[i], result[j])
        /\ \A x \in got, y \in eligible \ got : RanksBefore(seq, x, y)

DistinctKeywords == {KeywordList(input, stop_words)[h] : h \in 1..Len(KeywordList(input, stop_words))}

\* C12 as stated: extract_keywords(text, k) returns a sequence of length at
\* most k for every text and every integer k, k = 0 and negative k included.
KeywordsAtMostCount == pc = "keywords" => Len(ret) <= num

\* C12 amended: for every k >= 0 the result has at most k entries; for a
\* negative k it is the ranking without its last |k| entries.
KeywordsAtMostCountOrCutFromEnd ==
    pc = "keywords" =>
        IF num >= 0 THEN Len(ret) <= num
        ELSE Len(ret) = (IF Cardinality(DistinctKeywords) + num < 0 THEN 0
                         ELSE Cardinality(DistinctKeywords) + num)

\* a ranking of three keywords has been cut to two
KeywordsCut ==
    pc = "keywords" /\ num = 2 /\ Len(ret) = 2 /\ Cardinality(DistinctKeywords) = 3

\* C13: the keywords are returned in descending frequency order, keywords of
\* equal frequency in the order of their first occurrence in the text, and
\* the result is the first k entries of that ordering.
KeywordsRanked ==
    (pc = "keywords" /\ num >= 0) =>
        RankedPrefix(ret, KeywordList(input, stop_words), num, 1)

\* a keyword that occurs later but more often was put first, and the
\* result cut after it
FrequentKeywordFirst ==
    /\ pc = "keywords" /\ num = 1 /\ Len(ret) = 1
    /\ FirstOf(KeywordList(input, stop_words), ret[1]) > 1

\* a text of letters and blanks
AlphabeticText(text) == \A i \in 1..Len(text) : text[i] \in Letters \cup {" "}

\* C14: keyword extraction is case-insensitive: for an alphabetic text s,
\* extract_keywords(s, k) equals extract_keywords(s.upper(), k).
KeywordsCaseInsensitive ==
    (pc = "keywords_upper" /\ AlphabeticText(input)) => ret2 = ret

(***************************************************************************)
(* The sentence splitter and the topic extractor as a state machine: the   *)
(* environment fixes whether NLTK's tokenizer is available, and            *)
(* split_into_sentences or extract_topics is called on a text.             *)
(***************************************************************************)
MaxTopicWords == 5
TopicVocabulary == {<<"d","a","t","a">>, <<"m","i","n","i","n","g">>, <<"D","e","e","p",".">>}
TopicTexts ==
    {Join(ws, <<" ">>) : ws \in UNION {[1..k -> TopicVocabulary] : k \in 1..MaxTopicWords}}

InitTopics ==
    /\ pc = "call"
    /\ input \in TopicTexts
    /\ stop_words \in StopWordSets
    /\ num \in Counts
    /\ nltk \in BOOLEAN
    /\ cuts = {}
    /\ ret = <<>>
    /\ ret2 = <<>>
    /\ AppIdle

\* processor.split_into_sentences(input)
SplitIntoSentences ==
    /\ pc = "call"
    /\ \E breaks \in (IF nltk THEN SUBSET PunktCandidates(input) ELSE {{}}) :
          /\ cuts' = breaks
          /\ ret' = split_into_sentences(input, nltk, breaks)
    /\ pc' = "sentences"
    /\ UNCHANGED <<input, nltk, ret2, kwVars, appVars>>

\* processor.extract_topics(input, num)
ExtractTopics ==
    /\ pc = "call"
    /\ \E breaks \in (IF nltk THEN SUBSET PunktCandidates(input) ELSE {{}}) :
          /\ cuts' = breaks
          /\ ret' = extract_topics(input, num, stop_words, nltk, breaks)
    /\ pc' = "topics"
    /\ UNCHANGED <<input, nltk, ret2, kwVars, appVars>>

NextTopics == SplitIntoSentences \/ ExtractTopics

SpecTopics == InitTopics /\ [][NextTopics]_vars

\* the candidate phrases of the call, in the order they were collected
Candidates ==
    TopicCandidates(split_into_sentences(input, nltk, cuts),
                    extract_keywords(input, TopicKeywords, stop_words))

\* C15: extract_topics(text, k) returns exactly the first k entries of the
\* candidate phrases of frequency > 1 in the order (frequency descending,
\* first occurrence ascending): no phrase of frequency <= 1, no padding, and
\* cutting to k before filtering gives what filtering before cutting gives.
TopicsAreRepeatedPrefix ==
    (pc = "topics" /\ num >= 0) => RankedPrefix(ret, Candidates, num, 2)

\* the cut to two entries took in a phrase that occurs once, which the
\* filter then dropped
TopicCutThenFiltered ==
    /\ pc = "topics" /\ num = 2 /\ Len(ret) = 1
    /\ \E h \in 1..Len(Candidates) : CountOf(Candidates, Candidates[h]) = 1

\* C16: every sentence split_into_sentences returns is longer than 10
\* characters after trimming, whether NLTK or the regular expression split
\* the text.
SentencesLongerThanTen ==
    pc = "sentences" =>
        \A j \in 1..Len(ret) : Len(ret[j]) > 10 /\ Strip(ret[j]) = ret[j]

\* a short fragment was dropped and a sentence kept
ShortFragmentDropped ==
    /\ pc = "sentences" /\ Len(ret) >= 1
    /\ Len(ret) < Len(split_unfiltered(input, nltk, cuts))

\* a text that is empty or holds whitespace only
Blank(text) == \A i \in 1..Len(text) : text[i] \in WhiteSet

\* C17: clean_transcript returns the empty string for every input that is
\* empty or consists only of whitespace.
BlankCleansToEmpty == (pc = "cleaned" /\ Blank(input)) => ret = <<>>

\* a text of blanks, newlines and tabs has been cleaned
BlankLinesCleaned ==
    /\ pc = "cleaned" /\ Blank(input)
    /\ \A c \in WhiteSet : HasChar(input, c)

(***************************************************************************)
(* LectureDatabase: the lectures table.  A column holds NULL or a text.    *)
(***************************************************************************)
Null == [k |-> "null"]
\* INSERT INTO lectures (filename, transcript, summary, quiz, flashcards)
\* with the defaults of insert_lecture(filename=...)
NewRow(filename) ==
    [filename |-> StrVal(filename), transcript |-> Null, summary |-> Null,
     quiz |-> Null, flashcards |-> Null]
\* the id of a plain INTEGER PRIMARY KEY: one more than the largest id in
\* the table
NextRowid(table, seq) == SetMax(DOMAIN table \cup {0}) + 1
\* cursor.lastrowid of an INSERT into an AUTOINCREMENT table: one more
\* than the largest id the table ever held (seq, kept in sqlite_sequence)
NextId(table, seq) == SetMax(DOMAIN table \cup {seq}) + 1
insert_lecture(table, id, filename) ==
    [i \in DOMAIN table \cup {id} |-> IF i = id THEN NewRow(filename) ELSE table[i]]

\* sqlite3 binds a str or None to a parameter; a dict raises an error
\* before the statement runs
Bindable(val) == val.k \in {"str", "null"}
\* an UPDATE that writes every column, NULL where no value was passed
update_every_column(table, id, kwargs) ==
    [i \in DOMAIN table |->
        IF i = id
        THEN [c \in DOMAIN table[i] |->
                 IF c = "filename" THEN table[i][c]
                 ELSE IF c \in DOMAIN kwargs THEN kwargs[c] ELSE Null]
        ELSE table[i]]
\* UPDATE lectures SET <the columns of kwargs> WHERE id = ?
update_lecture(table, id, kwargs) ==
    [i \in DOMAIN table |->
        IF i = id
        THEN [c \in DOMAIN table[i] |->
                 IF c \in DOMAIN kwargs THEN kwargs[c] ELSE table[i][c]]
        ELSE table[i]]
\* a DELETE that also takes the rows of smaller id
delete_up_to(table, id) == [i \in {j \in DOMAIN table : j > id} |-> table[i]]
\* DELETE FROM lectures WHERE id = ?
delete_lecture(table, id) == [i \in DOMAIN table \ {id} |-> table[i]]

(***************************************************************************)
(* get_text_insights and json.dumps                                        *)
(***************************************************************************)
InsightKeywords == 10
InsightTopics == 5
InsightSentences == 3
get_text_insights(text, stops, hasNltk, breaks) ==
    [stats |-> create_text_summary_stats(text, hasNltk, breaks),
     keywords |-> extract_keywords(text, InsightKeywords, stops),
     topics |-> extract_topics(text, InsightTopics, stops, hasNltk, breaks),
     sentences |-> Take(split_into_sentences(text, hasNltk, breaks), InsightSentences)]

\* json.dumps with its default separators ", " and ": "
RECURSIVE json_dumps(_)
RECURSIVE DumpItems(_, _)
json_dumps(val) ==
    CASE val.k = "str"  -> <<"\"">> \o val.v \o <<"\"">>
      [] val.k = "list" -> <<"[">> \o DumpItems(val.v, FALSE) \o <<"]">>
      [] val.k = "dict" -> <<"{">> \o DumpItems(val.v, TRUE) \o <<"}">>
DumpItems(items, pairs) ==
    IF items = <<>> THEN <<>>
    ELSE (IF pairs
          THEN <<"\"">> \o items[1][1] \o <<"\"", ":", " ">> \o json_dumps(items[1][2])
          ELSE json_dumps(items[1]))
         \o (IF Len(items) = 1 THEN <<>> ELSE <<",", " ">>)
         \o DumpItems(Tail(items), pairs)

(***************************************************************************)
(* LectureNotesApp: _execute_processing and batch_process_page over the    *)
(* lectures table.  pc is the position of the running handler; locals      *)
(* holds its local variables; batch holds the state of the batch loop.     *)
(***************************************************************************)
MaxLectures == 2
MaxBatch == 2
Files == {<<"a",".","m","p","3">>, <<"b",".","w","a","v">>}
\* what Whisper can return for a file: result['text'].strip()
Transcriptions == {<<>>, <<"u","m">>, <<"H","e","l","l","o"," ","t","h","e","r","e"," ","c","l","a","s","s",".">>}
Kinds == {"summary", "quiz", "flashcards"}
\* the generate_summary / generate_quiz / generate_flashcards checkboxes
ContentChoices == {{}, {"summary"}, {"quiz", "flashcards"}}

\* the value _generate_content stores under each key of results
ContentOf(kind) ==
    CASE kind = "summary" ->
             DictVal(<< <<<<"t","e","x","t">>, StrVal(<<"S">>)>>, <<<<"t","y","p","e">>, StrVal(<<"b","r","i","e","f">>)>>,
                        <<<<"k","e","y","_","c","o","n","c","e","p","t","s">>, ListVal(<<>>)>>, <<<<"l","e","a","r","n","i","n","g","_","o","b","j","e","c","t","i","v","e","s">>, ListVal(<<>>)>> >>)
      [] kind = "quiz" ->
             DictVal(<< <<<<"m","u","l","t","i","p","l","e","_","c","h","o","i","c","e">>, ListVal(<<>>)>>, <<<<"t","r","u","e","_","f","a","l","s","e">>, ListVal(<<>>)>>,
                        <<<<"s","h","o","r","t","_","a","n","s","w","e","r">>, ListVal(<<>>)>> >>)
      [] kind = "flashcards" ->
             DictVal(<< <<<<"c","o","n","c","e","p","t","s">>, ListVal(<<>>)>>, <<<<"d","e","f","i","n","i","t","i","o","n","s">>, ListVal(<<>>)>>,
                        <<<<"a","p","p","l","i","c","a","t","i","o","n","s">>, ListVal(<<>>)>> >>)
\* results.get(kind, default)
Get(results, kind, default) == IF kind \in results THEN ContentOf(kind) ELSE default

\* the keys of text_insights['stats'] that _execute_processing subscripts
AppStatsFields == {"word_count", "sentence_count", "estimated_reading_time_minutes",
                   "estimated_speaking_time_minutes"}
CanBind(kwargs) == \A c \in DOMAIN kwargs : Bindable(kwargs[c])

InitApp ==
    /\ pc = "idle"
    /\ input = <<>>
    /\ nltk \in BOOLEAN
    /\ cuts = {}
    /\ ret = <<>>
    /\ ret2 = <<>>
    /\ stop_words = fallback_stop_words
    /\ num = 0
    /\ AppIdle

\* the "Process Audio" button: _execute_processing starts and inserts the row
ProcessAudio ==
    /\ pc = "idle"
    /\ last_id < MaxLectures
    /\ \E file \in Files, flags \in ContentChoices :
          /\ lectures' = insert_lecture(lectures, NextId(lectures, last_id), file)
          /\ locals' = [NoRun EXCEPT !.file = file, !.lecture_id = NextId(lectures, last_id),
                                     !.flags = flags]
    /\ last_id' = NextId(lectures, last_id)
    /\ pc' = "transcribe"
    /\ UNCHANGED <<input, nltk, cuts, ret, ret2, kwVars, batch, temp_files>>

\* Step 1: transcribe_audio returns a text
Transcribe ==
    /\ pc = "transcribe"
    /\ \E text \in Transcriptions : locals' = [locals EXCEPT !.raw = text]
    /\ pc' = "process"
    /\ UNCHANGED <<input, nltk, cuts, ret, ret2, kwVars, lectures, last_id, batch, temp_files>>

\* Step 1: transcribe_audio raises
TranscribeFails ==
    /\ pc = "transcribe"
    /\ locals' = [locals EXCEPT !.error = "transcription"]
    /\ pc' = "except"
    /\ UNCHANGED <<input, nltk, cuts, ret, ret2, kwVars, lectures, last_id, batch, temp_files>>

\* Step 2: preprocess_audio_transcript and get_text_insights
ProcessText ==
    /\ pc = "process"
    /\ \E breaks \in (IF nltk THEN SUBSET PunktCandidates(clean_transcript(locals.raw))
                       ELSE {{}}) :
          locals' = [locals EXCEPT
              !.cleaned = clean_transcript(locals.raw),
              !.insights = get_text_insights(clean_transcript(locals.raw),
                                             stop_words, nltk, breaks)]
    /\ pc' = "store"
    /\ UNCHANGED <<input, nltk, cuts, ret, ret2, kwVars, lectures, last_id, batch, temp_files>>

\* self.db.update_lecture(lecture_id, transcript=cleaned_transcript)
StoreTranscript ==
    /\ pc = "store"
    /\ lectures' = update_lecture(lectures, locals.lecture_id,
                                  [transcript |-> StrVal(locals.cleaned)])
    /\ pc' = "display"
    /\ UNCHANGED <<input, nltk, cuts, ret, ret2, kwVars, last_id, locals, batch, temp_files>>

\* the "Processed Transcript" expander: stats['word_count'] and the other
\* three subscripts raise KeyError on a missing key
DisplayInsights ==
    /\ pc = "display"
    /\ IF AppStatsFields \subseteq DOMAIN locals.insights.stats
       THEN pc' = "generate" /\ locals' = locals
       ELSE pc' = "except" /\ locals' = [locals EXCEPT !.error = "KeyError"]
    /\ UNCHANGED <<input, nltk, cuts, ret, ret2, kwVars, lectures, last_id, batch, temp_files>>

\* Step 3: _generate_content returns results
GenerateContent ==
    /\ pc = "generate"
    /\ locals' = [locals EXCEPT !.results = locals.flags]
    /\ pc' = "save"
    /\ UNCHANGED <<input, nltk, cuts, ret, ret2, kwVars, lectures, last_id, batch, temp_files>>

\* Step 3: a generator raises
GenerateContentFails ==
    /\ pc = "generate"
    /\ locals.flags # {}
    /\ locals' = [locals EXCEPT !.error = "generation"]
    /\ pc' = "except"
    /\ UNCHANGED <<input, nltk, cuts, ret, ret2, kwVars, lectures, last_id, batch, temp_files>>

\* the keyword arguments of the second update_lecture call
ResultColumns(results) ==
    [summary |-> Get(results, "summary", StrVal(<<>>)),
     quiz |-> StrVal(json_dumps(Get(results, "quiz", DictVal(<<>>)))),
     flashcards |-> StrVal(json_dumps(Get(results, "flashcards", DictVal(<<>>))))]

\* self.db.update_lecture(lecture_id, summary=..., quiz=..., flashcards=...)
SaveResults ==
    /\ pc = "save"
    /\ IF CanBind(ResultColumns(locals.results))
       THEN /\ lectures' = update_lecture(lectures, locals.lecture_id,
                                          ResultColumns(locals.results))
            /\ locals' = locals
            /\ pc' = "results"
       ELSE /\ lectures' = lectures
            /\ locals' = [locals EXCEPT !.error = "binding"]
            /\ pc' = "except"
    /\ UNCHANGED <<input, nltk, cuts, ret, ret2, kwVars, last_id, batch, temp_files>>

\* Step 4: _display_results, the handler returns
DisplayResults ==
    /\ pc = "results"
    /\ locals' = NoRun
    /\ pc' = "idle"
    /\ UNCHANGED <<input, nltk, cuts, ret, ret2, kwVars, lectures, last_id, batch, temp_files>>

\* a handler that deletes the row only while nothing was saved in it
HandleFailureKeepsSaved ==
    /\ pc = "except"
    /\ lectures' = IF lectures[locals.lecture_id].transcript = Null
                   THEN delete_lecture(lectures, locals.lecture_id)
                   ELSE lectures
    /\ locals' = NoRun
    /\ pc' = "idle"
    /\ UNCHANGED <<input, nltk, cuts, ret, ret2, kwVars, last_id, batch, temp_files>>
\* except Exception: self.db.delete_lecture(lecture_id)
HandleFailure ==
    /\ pc = "except"
    /\ lectures' = delete_lecture(lectures, locals.lecture_id)
    /\ locals' = NoRun
    /\ pc' = "idle"
    /\ UNCHANGED <<input, nltk, cuts, ret, ret2, kwVars, last_id, batch, temp_files>>

\* the "Delete" button of the history page
DeleteFromHistory ==
    /\ pc = "idle"
    /\ \E id \in DOMAIN lectures : lectures' = delete_lecture(lectures, id)
    /\ UNCHANGED <<pc, input, nltk, cuts, ret, ret2, kwVars, last_id, locals, batch, temp_files>>

(***************************************************************************)
(* batch_process_page: the loop over the uploaded files.  batch.i is the   *)
(* 1-based position of the loop; attempted lists the positions whose body  *)
(* was entered, succeeded and failed those that reached st.success and     *)
(* the except clause.                                                      *)
(***************************************************************************)
\* the "Process All Files" button
ProcessAllFiles ==
    /\ pc = "idle"
    /\ \E n \in 1..MaxBatch :
          /\ last_id + n <= MaxLectures
          /\ \E files \in [1..n -> Files], flags \in ContentChoices :
                /\ batch' = [NoBatch EXCEPT !.files = files, !.i = 1]
                /\ locals' = [NoRun EXCEPT !.flags = flags]
    /\ pc' = "batch_file"
    /\ UNCHANGED <<input, nltk, cuts, ret, ret2, kwVars, lectures, last_id, temp_files>>

\* for i, file in enumerate(uploaded_files): ... insert_lecture(filename=file.name)
BatchNextFile ==
    /\ pc = "batch_file"
    /\ batch.i <= Len(batch.files)
    /\ batch' = [batch EXCEPT !.attempted = Append(batch.attempted, batch.i)]
    /\ lectures' = insert_lecture(lectures, NextId(lectures, last_id), batch.files[batch.i])
    /\ last_id' = NextId(lectures, last_id)
    /\ locals' = [NoRun EXCEPT !.flags = locals.flags, !.file = batch.files[batch.i],
                               !.lecture_id = NextId(lectures, last_id)]
    /\ pc' = "batch_transcribe"
    /\ UNCHANGED <<input, nltk, cuts, ret, ret2, kwVars, temp_files>>

\* transcribe_audio(file) and preprocess_audio_transcript
BatchTranscribe ==
    /\ pc = "batch_transcribe"
    /\ \E text \in Transcriptions :
          locals' = [locals EXCEPT !.raw = text, !.cleaned = clean_transcript(text)]
    /\ pc' = "batch_generate"
    /\ UNCHANGED <<input, nltk, cuts, ret, ret2, kwVars, lectures, last_id, batch, temp_files>>

\* transcribe_audio raises
BatchTranscribeFails ==
    /\ pc = "batch_transcribe"
    /\ locals' = [locals EXCEPT !.error = "transcription"]
    /\ pc' = "batch_except"
    /\ UNCHANGED <<input, nltk, cuts, ret, ret2, kwVars, lectures, last_id, batch, temp_files>>

\* _generate_content returns results
BatchGenerate ==
    /\ pc = "batch_generate"
    /\ locals' = [locals EXCEPT !.results = locals.flags]
    /\ pc' = "batch_save"
    /\ UNCHANGED <<input, nltk, cuts, ret, ret2, kwVars, lectures, last_id, batch, temp_files>>

\* a generator raises
BatchGenerateFails ==
    /\ pc = "batch_generate"
    /\ locals.flags # {}
    /\ locals' = [locals EXCEPT !.error = "generation"]
    /\ pc' = "batch_except"
    /\ UNCHANGED <<input, nltk, cuts, ret, ret2, kwVars, lectures, last_id, batch, temp_files>>

\* the keyword arguments of the batch's update_lecture call
BatchColumns(cleaned, results) ==
    [transcript |-> StrVal(cleaned),
     summary |-> StrVal(json_dumps(Get(results, "summary", DictVal(<<>>)))),
     quiz |-> StrVal(json_dumps(Get(results, "quiz", DictVal(<<>>)))),
     flashcards |-> StrVal(json_dumps(Get(results, "flashcards", DictVal(<<>>))))]

\* update_lecture, st.success, progress: the body ends, the loop moves on
BatchSave ==
    /\ pc = "batch_save"
    /\ lectures' = update_lecture(lectures, locals.lecture_id,
                                  BatchColumns(locals.cleaned, locals.results))
    /\ batch' = [batch EXCEPT !.succeeded = batch.succeeded \cup {batch.i},
                              !.i = batch.i + 1]
    /\ pc' = "batch_file"
    /\ UNCHANGED <<input, nltk, cuts, ret, ret2, kwVars, last_id, locals, temp_files>>

\* a failure handler that leaves the loop
BatchAbortOnFailure ==
    /\ pc = "batch_except"
    /\ batch' = [batch EXCEPT !.failed = batch.failed \cup {batch.i},
                              !.i = Len(batch.files) + 1]
    /\ pc' = "batch_file"
    /\ UNCHANGED <<input, nltk, cuts, ret, ret2, kwVars, lectures, last_id, locals, temp_files>>
\* except Exception: st.error; progress: the loop moves on
BatchHandleFailure ==
    /\ pc = "batch_except"
    /\ batch' = [batch EXCEPT !.failed = batch.failed \cup {batch.i},
                              !.i = batch.i + 1]
    /\ pc' = "batch_file"
    /\ UNCHANGED <<input, nltk, cuts, ret, ret2, kwVars, lectures, last_id, locals, temp_files>>

\* the loop is exhausted: "Batch processing completed!"
BatchCompleted ==
    /\ pc = "batch_file"
    /\ batch.i > Len(batch.files)
    /\ pc' = "batch_done"
    /\ UNCHANGED <<input, nltk, cuts, ret, ret2, kwVars, lectures, last_id, locals, batch, temp_files>>

\* the script run ends
BatchReturn ==
    /\ pc = "batch_done"
    /\ batch' = NoBatch
    /\ locals' = NoRun
    /\ pc' = "idle"
    /\ UNCHANGED <<input, nltk, cuts, ret, ret2, kwVars, lectures, last_id, temp_files>>

NextApp ==
    \/ ProcessAudio \/ Transcribe \/ TranscribeFails \/ ProcessText
    \/ StoreTranscript \/ DisplayInsights \/ GenerateContent
    \/ GenerateContentFails \/ SaveResults \/ DisplayResults \/ HandleFailure
    \/ DeleteFromHistory
    \/ ProcessAllFiles \/ BatchNextFile \/ BatchTranscribe \/ BatchTranscribeFails
    \/ BatchGenerate \/ BatchGenerateFails \/ BatchSave \/ BatchHandleFailure
    \/ BatchCompleted \/ BatchReturn
SpecApp == InitApp /\ [][NextApp]_vars

\* the loop of batch_process_page runs to its end: each step of the running
\* script is taken once it is enabled
BatchStep ==
    \/ BatchNextFile \/ BatchTranscribe \/ BatchTranscribeFails \/ BatchGenerate
    \/ BatchGenerateFails \/ BatchSave \/ BatchHandleFailure \/ BatchCompleted
SpecAppFair == SpecApp /\ WF_vars(BatchStep)

(***************************************************************************)
(* Claims on the application                                               *)
(***************************************************************************)
\* C18: the record returned by get_text_insights has the four stats fields
\* that _execute_processing reads, for every cleaned transcript including
\* the empty one, and displaying the insights does not raise.
InsightsDisplayNeverRaises ==
    /\ pc = "display" => AppStatsFields \subseteq DOMAIN locals.insights.stats
    /\ locals.error # "KeyError"

\* C19: the transcript column of a lecture row is written at most once and
\* with the cleaned text: a step that changes it writes
\* clean_transcript(raw) over NULL, and once it is not NULL no step changes
\* it while the row exists.
TranscriptWrittenOnce ==
    [][\A id \in DOMAIN lectures \cap DOMAIN lectures' :
          /\ lectures[id].transcript # Null
                => lectures'[id].transcript = lectures[id].transcript
          /\ lectures'[id].transcript # lectures[id].transcript
                => /\ id = locals.lecture_id
                   /\ lectures'[id].transcript = StrVal(clean_transcript(locals.raw))]_vars
\* the second update of _execute_processing has run on a row whose
\* transcript was stored before
ResultsSavedAfterTranscript ==
    /\ pc = "results"
    /\ locals.cleaned # <<>>
    /\ lectures[locals.lecture_id].transcript = StrVal(locals.cleaned)
    /\ lectures[locals.lecture_id].quiz # Null

\* C20: when the batch reports completion every selected file has been
\* attempted exactly once, in order, whether or not earlier files failed,
\* each attempt ended in success or in the failure handler; and a started
\* batch reaches completion.
BatchAttemptsEveryFileOnce ==
    /\ [](pc = "batch_done" =>
            /\ batch.attempted = [i \in 1..Len(batch.files) |-> i]
            /\ batch.succeeded \cup batch.failed = 1..Len(batch.files)
            /\ batch.succeeded \cap batch.failed = {})
    /\ (pc = "batch_file" ~> pc = "batch_done")
\* a batch completed although its first file failed, and its second file
\* was processed and saved
BatchCompletedAfterFailure ==
    /\ pc = "batch_done"
    /\ 1 \in batch.failed
    /\ 2 \in batch.succeeded
    /\ lectures[locals.lecture_id].transcript = StrVal(locals.cleaned)

(***************************************************************************)
(* Further claims on clean_transcript                                      *)
(***************************************************************************)
LowerCaseLetters == LowerSet \cup {LongS}
SentenceMarks == {".", "!", "?"}
\* position j opens the text or follows a sentence mark and whitespace
OpensSentence(t, j) ==
    \/ j = 1
    \/ \E i \in 1..(j - 2) : /\ t[i] \in SentenceMarks
                              /\ \A k \in (i + 1)..(j - 1) : t[k] \in WhiteSet
\* C21: in the output of clean_transcript the first character and every
\* character after a sentence mark (. ! ?) and whitespace is not a
\* lowercase letter, also where a filler word was removed.
CleanedSentencesCapitalized ==
    pc = "cleaned" =>
        \A j \in 1..Len(ret) : OpensSentence(ret, j) => ret[j] \notin LowerCaseLetters

(***************************************************************************)
(* Two calls of split_into_sentences in one environment.  input is the     *)
(* pair of texts; ret and ret2 record the strategy and the sentences of    *)
(* the first and of the second call.                                       *)
(***************************************************************************)
SplitTexts == {<<>>, <<" ">>, StatsExample, <<"N","o"," ","m","a","r","k"," ","h","e","r","e"," ","a","t"," ","a","l","l">>,
               <<"W","a","i","t","!"," ","I","s"," ","t","h","i","s"," ","r","i","g","h","t","?"," ","Y","e","s"," ","i","t"," ","i","s",".">>}
InitSplit ==
    /\ pc = "call"
    /\ input \in SplitTexts \X SplitTexts
    /\ nltk \in BOOLEAN
    /\ cuts = {}
    /\ ret = <<>>
    /\ ret2 = <<>>
    /\ KeywordsIdle
    /\ AppIdle

\* processor.split_into_sentences(input[1])
SplitFirstText ==
    /\ pc = "call"
    /\ \E breaks \in (IF nltk THEN SUBSET PunktCandidates(input[1]) ELSE {{}}) :
          ret' = [strategy |-> split_strategy(input[1], nltk),
                  sentences |-> split_into_sentences(input[1], nltk, breaks)]
    /\ pc' = "first"
    /\ UNCHANGED <<input, nltk, cuts, ret2, kwVars, appVars>>

\* processor.split_into_sentences(input[2])
SplitSecondText ==
    /\ pc = "first"
    /\ \E breaks \in (IF nltk THEN SUBSET PunktCandidates(input[2]) ELSE {{}}) :
          ret2' = [strategy |-> split_strategy(input[2], nltk),
                   sentences |-> split_into_sentences(input[2], nltk, breaks)]
    /\ pc' = "second"
    /\ UNCHANGED <<input, nltk, cuts, ret, kwVars, appVars>>

NextSplit == SplitFirstText \/ SplitSecondText
SpecSplit == InitSplit /\ [][NextSplit]_vars

MaxCalls == 2
Calls == 1..MaxCalls
InsightTexts == {<<>>, <<"D","a","t","a"," ","m","i","n","i","n","g"," ","n","e","e","d","s"," ","m","o","r","e"," ","d","a","t","a",".">>,
                 <<"M","o","r","e"," ","d","a","t","a","."," ","D","e","e","p"," ","d","a","t","a"," ","m","i","n","i","n","g"," ","h","e","l","p","s",".">>}
NoCall == [stop_words |-> {}, stats |-> <<>>, keywords |-> <<>>, topics |-> <<>>,
           sentences |-> <<>>]
InitInsights ==
    /\ pc = [c \in Calls |-> "start"]
    /\ input \in [Calls -> InsightTexts]
    /\ nltk \in BOOLEAN
    /\ cuts \in [InsightTexts -> SUBSET UNION {PunktCandidates(t) : t \in InsightTexts}]
    /\ \A t \in InsightTexts : cuts[t] \subseteq (IF nltk THEN PunktCandidates(t) ELSE {})
    /\ ret = [c \in Calls |-> NoCall]
    /\ ret2 = <<>>
    /\ stop_words \in StopWordSets
    /\ num = 0
    /\ AppIdle

\* a processor that records the words it has seen among the stop words of
\* the installation
NewProcessorShared(c) ==
    /\ pc[c] = "start"
    /\ ret' = [ret EXCEPT ![c].stop_words = stop_words]
    /\ stop_words' = stop_words \cup {MapLower(SplitWords(input[c])[k]) :
                                        k \in 1..Len(SplitWords(input[c]))}
    /\ pc' = [pc EXCEPT ![c] = "stats"]
    /\ UNCHANGED <<input, nltk, cuts, ret2, num, appVars>>
\* processor = TextProcessor()
NewProcessor(c) ==
    /\ pc[c] = "start"
    /\ ret' = [ret EXCEPT ![c].stop_words = stop_words]
    /\ stop_words' = stop_words
    /\ pc' = [pc EXCEPT ![c] = "stats"]
    /\ UNCHANGED <<input, nltk, cuts, ret2, num, appVars>>

\* 'stats': processor.create_text_summary_stats(text)
InsightStats(c) ==
    /\ pc[c] = "stats"
    /\ ret' = [ret EXCEPT ![c].stats =
                   create_text_summary_stats(input[c], nltk, cuts[input[c]])]
    /\ pc' = [pc EXCEPT ![c] = "keywords"]
    /\ UNCHANGED <<input, nltk, cuts, ret2, kwVars, appVars>>

\* 'keywords': processor.extract_keywords(text, 10)
InsightKeywordsStep(c) ==
    /\ pc[c] = "keywords"
    /\ ret' = [ret EXCEPT ![c].keywords =
                   extract_keywords(input[c], InsightKeywords, ret[c].stop_words)]
    /\ pc' = [pc EXCEPT ![c] = "topics"]
    /\ UNCHANGED <<input, nltk, cuts, ret2, kwVars, appVars>>

\* 'topics': processor.extract_topics(text, 5)
InsightTopicsStep(c) ==
    /\ pc[c] = "topics"
    /\ ret' = [ret EXCEPT ![c].topics =
                   extract_topics(input[c], InsightTopics, ret[c].stop_words, nltk,
                                  cuts[input[c]])]
    /\ pc' = [pc EXCEPT ![c] = "sentences"]
    /\ UNCHANGED <<input, nltk, cuts, ret2, kwVars, appVars>>

\* 'sentences': processor.split_into_sentences(text)[:3]; the record is returned
InsightSentencesStep(c) ==
    /\ pc[c] = "sentences"
    /\ ret' = [ret EXCEPT ![c].sentences =
                   Take(split_into_sentences(input[c], nltk, cuts[input[c]]),
                        InsightSentences)]
    /\ pc' = [pc EXCEPT ![c] = "done"]
    /\ UNCHANGED <<input, nltk, cuts, ret2, kwVars, appVars>>

NextInsights ==
    \E c \in Calls :
        \/ NewProcessor(c) \/ InsightStats(c) \/ InsightKeywordsStep(c)
        \/ InsightTopicsStep(c) \/ InsightSentencesStep(c)
SpecInsights == InitInsights /\ [][NextInsights]_vars

\* the record a finished call returned
Returned(c) == [stats |-> ret[c].stats, keywords |-> ret[c].keywords,
                topics |-> ret[c].topics, sentences |-> ret[c].sentences]
AveragesZeroWithoutDivisor ==
    (pc = "stats" /\ input # <<>>) =>
        /\ {"avg_words_per_sentence", "avg_chars_per_word"} \subseteq DOMAIN ret
        /\ ret.sentence_count = 0 => ret.avg_words_per_sentence = 0
        /\ ret.word_count = 0 => ret.avg_chars_per_word = 0
        /\ ret.sentence_count = Len(split_into_sentences(input, nltk, cuts))
        /\ ret.word_count = Len(SplitWords(input))
\* a text with words but without a sentence longer than 10 characters
WordsWithoutSentence ==
    /\ pc = "stats"
    /\ ret # <<>>
    /\ ret.word_count > 0
    /\ ret.sentence_count = 0
    /\ ret.avg_words_per_sentence = 0
    /\ ret.avg_chars_per_word > 0

\* C25: the flashcard fallback emits its records from the non-overlapping
\* pairs of non-empty trimmed lines (1-2, 3-4, ...), in their order: record
\* j has front and back equal to the two lines of the j-th pair whose
\* sides are both non-empty once the * markers are removed; a trailing line
\* without partner gives nothing.
FlashcardsFromDisjointPairs ==
    ret.path = "fallback" =>
        /\ Len(ret.val.v) <= Len(StrippedLines(input)) \div 2
        /\ Len(ret.val.v) <= Len(LinePairs(input))
        /\ Len(LinePairs(input)) <= FlashcardFallbackCap
              => Len(ret.val.v) = Len(LinePairs(input))
        /\ \A j \in 1..Len(ret.val.v) :
              /\ Field(ret.val.v[j], <<"f","r","o","n","t">>) = LinePairs(input)[j][1]
              /\ Field(ret.val.v[j], <<"b","a","c","k">>) = LinePairs(input)[j][2]
              /\ Field(ret.val.v[j], <<"f","r","o","n","t">>) # <<>>
              /\ Field(ret.val.v[j], <<"b","a","c","k">>) # <<>>
\* of five lines the first pair is dropped for its marker-only side, the
\* second pair is the one record, and the fifth line gives nothing
MarkerOnlyPairDropped ==
    /\ input = MarkerOnlyExample
    /\ ret.path = "fallback"
    /\ Len(ret.val.v) = 1
    /\ Field(ret.val.v[1], <<"f","r","o","n","t">>) = <<"H","o","w","?">>
    /\ Field(ret.val.v[1], <<"b","a","c","k">>) = <<"S","o">>

\* the positions of _execute_processing after the insert
SinglePositions == {"transcribe", "process", "store", "display", "generate", "save",
                    "results", "except"}
\* C26: _execute_processing leaves no partial record.  While it runs, the
\* row it inserted first exists; a step that raises leads to the handler;
\* and when it returns the row exists if and only if every step succeeded,
\* and then holds transcript, summary, quiz and flashcards: a failure after
\* the transcript was saved deletes the row as well.
NoPartialRecord ==
    /\ [](pc \in SinglePositions => locals.lecture_id \in DOMAIN lectures)
    /\ [](pc \in SinglePositions => (locals.error # "none" <=> pc = "except"))
    /\ [][(pc \in SinglePositions /\ pc' = "idle") =>
            /\ locals.lecture_id \in DOMAIN lectures' <=> pc = "results"
            /\ locals.lecture_id \in DOMAIN lectures' =>
                  \A c \in DOMAIN lectures'[locals.lecture_id] :
                      lectures'[locals.lecture_id][c] # Null]_vars
\* saving the results failed after the transcript had been stored; the
\* handler runs next
FailedAfterTranscriptSaved ==
    /\ pc = "except"
    /\ locals.error = "binding"
    /\ locals.cleaned # <<>>
    /\ lectures[locals.lecture_id].transcript = StrVal(locals.cleaned)

\* C27: whenever no processing is under way, every lecture row of the
\* store has a transcript: none holds a filename only.
EveryRecordHasTranscript ==
    pc = "idle" => \A id \in DOMAIN lectures : lectures[id].transcript # Null

(***************************************************************************)
(* SpeechToText.transcribe_audio and the temporary files it creates.       *)
(* input is the audio_file argument, locals the local variables of the     *)
(* call, ret its outcome.  A path is <<"user", extension>> for a file of   *)
(* the caller and <<"tmp", n>> or <<"wav", n>> for a temporary file.       *)
(***************************************************************************)
MaxTempFiles == 3
AudioFiles == {[kind |-> "upload"], [kind |-> "path", ext |-> ".mp3"],
               [kind |-> "path", ext |-> ".avi"]}
supported_formats == {".wav", ".mp3", ".m4a", ".flac", ".ogg", ".mp4"}
\* os.path.splitext(audio_path)[1].lower(); NamedTemporaryFile(suffix=...)
Extension(path) ==
    CASE path[1] = "tmp" -> ".tmp"
      [] path[1] = "wav" -> ".wav"
      [] path[1] = "user" -> path[2]
\* a name tempfile has not handed out yet
FreshName == CHOOSE n \in 1..(MaxTempFiles + 1) :
                 \A f \in temp_files : f[2] # n
NoTranscription == [audio_path |-> <<>>, processed_audio_path |-> <<>>]
InitTranscribe ==
    /\ pc = "idle"
    /\ input = <<>>
    /\ nltk = FALSE
    /\ cuts = {}
    /\ ret = "none"
    /\ ret2 = <<>>
    /\ KeywordsIdle
    /\ lectures = <<>> /\ last_id = 0 /\ batch = NoBatch
    /\ locals = NoTranscription
    /\ temp_files = {}

\* transcribe_audio(audio_file) is called; an uploaded file is copied to a
\* temporary file by _save_temp_file
SaveTempFile ==
    /\ pc = "idle"
    /\ Cardinality(temp_files) < MaxTempFiles
    /\ \E audio_file \in AudioFiles :
          /\ input' = audio_file
          /\ IF audio_file.kind = "upload"
             THEN /\ temp_files' = temp_files \cup {<<"tmp", FreshName>>}
                  /\ locals' = [NoTranscription EXCEPT !.audio_path = <<"tmp", FreshName>>]
             ELSE /\ temp_files' = temp_files
                  /\ locals' = [NoTranscription EXCEPT
                                    !.audio_path = <<"user", audio_file.ext>>]
    /\ ret' = "none"
    /\ pc' = "preprocess"
    /\ UNCHANGED <<nltk, cuts, ret2, kwVars, lectures, last_id, batch>>

\* _preprocess_audio: a supported extension, or AudioSegment.from_file
\* raises: the original path is returned
PreprocessKeepsPath ==
    /\ pc = "preprocess"
    /\ locals' = [locals EXCEPT !.processed_audio_path = locals.audio_path]
    /\ pc' = "transcribe"
    /\ UNCHANGED <<input, nltk, cuts, ret, ret2, kwVars, lectures, last_id, batch,
                   temp_files>>

\* _preprocess_audio: the file is converted into a temporary WAV file
PreprocessConverts ==
    /\ pc = "preprocess"
    /\ Extension(locals.audio_path) \notin supported_formats
    /\ temp_files' = temp_files \cup {<<"wav", FreshName>>}
    /\ locals' = [locals EXCEPT !.processed_audio_path = <<"wav", FreshName>>]
    /\ pc' = "transcribe"
    /\ UNCHANGED <<input, nltk, cuts, ret, ret2, kwVars, lectures, last_id, batch>>

\* _preprocess_audio: the temporary WAV file is created, audio.export
\* raises, the original path is returned
PreprocessExportFails ==
    /\ pc = "preprocess"
    /\ Extension(locals.audio_path) \notin supported_formats
    /\ temp_files' = temp_files \cup {<<"wav", FreshName>>}
    /\ locals' = [locals EXCEPT !.processed_audio_path = locals.audio_path]
    /\ pc' = "transcribe"
    /\ UNCHANGED <<input, nltk, cuts, ret, ret2, kwVars, lectures, last_id, batch>>

\* self.model.transcribe returns
ModelTranscribes ==
    /\ pc = "transcribe"
    /\ pc' = "cleanup"
    /\ UNCHANGED <<input, nltk, cuts, ret, ret2, kwVars, lectures, last_id, locals,
                   batch, temp_files>>

\* self.model.transcribe raises: except Exception: st.error(...); raise
ModelTranscribeFails ==
    /\ pc = "transcribe"
    /\ ret' = "raised"
    /\ pc' = "idle"
    /\ UNCHANGED <<input, nltk, cuts, ret2, kwVars, lectures, last_id, locals, batch,
                   temp_files>>

\* "Clean up temporary files" and return the result
CleanUpAndReturn ==
    /\ pc = "cleanup"
    /\ temp_files' = (temp_files
                         \ (IF input.kind = "upload" THEN {locals.audio_path} ELSE {}))
                         \ (IF locals.processed_audio_path # locals.audio_path
                            THEN {locals.processed_audio_path} ELSE {})
    /\ ret' = "returned"
    /\ pc' = "idle"
    /\ UNCHANGED <<input, nltk, cuts, ret2, kwVars, lectures, last_id, locals, batch>>

NextTranscribe ==
    \/ SaveTempFile \/ PreprocessKeepsPath \/ PreprocessConverts
    \/ PreprocessExportFails \/ ModelTranscribes \/ ModelTranscribeFails
    \/ CleanUpAndReturn
SpecTranscribe == InitTranscribe /\ [][NextTranscribe]_vars

\* C28: on every exit of transcribe_audio, by return or by raise, the
\* temporary copy of the uploaded file and the converted WAV file are gone:
\* no temporary file exists between calls.
NoTemporaryFileLeft ==
    pc = "idle" => temp_files = {}

(***************************************************************************)
(* LectureDatabase called directly: any sequence of insert_lecture,        *)
(* delete_lecture and get_lecture.  ret is the last call with its result   *)
(* and its number in the sequence, ret2 the ids insert_lecture returned.   *)
(***************************************************************************)
MaxStoreCalls == 4
None == [k |-> "none"]
\* cursor.rowcount of the DELETE
deleted_count(table, id) == Cardinality({i \in DOMAIN table : i = id})
\* dict(row) if row else None
get_lecture(table, id) == IF id \in DOMAIN table THEN table[id] ELSE None
NoStoreCall == [n |-> 0, op |-> "none", id |-> 0, result |-> None]
InitStore ==
    /\ pc = "store"
    /\ input = <<>>
    /\ nltk = FALSE
    /\ cuts = {}
    /\ ret = NoStoreCall
    /\ ret2 = <<>>
    /\ KeywordsIdle
    /\ AppIdle

\* lecture_id = db.insert_lecture(filename=...)
InsertLecture ==
    /\ ret.n < MaxStoreCalls
    /\ \E filename \in Files :
          lectures' = insert_lecture(lectures, NextId(lectures, last_id), filename)
    /\ last_id' = NextId(lectures, last_id)
    /\ ret' = [n |-> ret.n + 1, op |-> "insert", id |-> NextId(lectures, last_id),
               result |-> NextId(lectures, last_id)]
    /\ ret2' = Append(ret2, NextId(lectures, last_id))
    /\ UNCHANGED <<pc, input, nltk, cuts, kwVars, locals, batch, temp_files>>

\* db.delete_lecture(id), for an id that exists, existed or never existed
DeleteLecture ==
    /\ ret.n < MaxStoreCalls
    /\ \E id \in 1..(last_id + 1) :
          /\ lectures' = delete_lecture(lectures, id)
          /\ ret' = [n |-> ret.n + 1, op |-> "delete", id |-> id,
                     result |-> deleted_count(lectures, id) > 0]
    /\ UNCHANGED <<pc, input, nltk, cuts, ret2, kwVars, last_id, locals, batch, temp_files>>

\* db.get_lecture(id)
GetLecture ==
    /\ ret.n < MaxStoreCalls
    /\ \E id \in 1..(last_id + 1) :
          ret' = [n |-> ret.n + 1, op |-> "get", id |-> id,
                  result |-> get_lecture(lectures, id)]
    /\ UNCHANGED <<pc, input, nltk, cuts, ret2, kwVars, appVars>>

NextStore == InsertLecture \/ DeleteLecture \/ GetLecture
SpecStore == InitStore /\ [][NextStore]_vars

\* C29: over any sequence of insert_lecture and delete_lecture calls the
\* ids that insert_lecture returned are pairwise different, also when the
\* row of an earlier id was deleted before a later insert.
LectureIdsNeverReused ==
    \A i, j \in 1..Len(ret2) : i # j => ret2[i] # ret2[j]
\* an insert made after the row inserted last was deleted
InsertedAfterDeletingLast ==
    /\ ret.op = "insert"
    /\ Len(ret2) >= 2
    /\ DOMAIN lectures = {ret.result}

\* C30: a delete_lecture(id) call returns True exactly when a row with that
\* id existed; after it get_lecture(id) is None and every other row is as
\* before; a delete_lecture(id) right after a delete_lecture(id) returns
\* False and changes nothing.
DeleteRemovesOnlyThatRecord ==
    [][ret'.op = "delete" =>
          /\ ret'.result = (ret'.id \in DOMAIN lectures)
          /\ get_lecture(lectures', ret'.id) = None
          /\ DOMAIN lectures' = DOMAIN lectures \ {ret'.id}
          /\ \A i \in DOMAIN lectures' : lectures'[i] = lectures[i]
          /\ (ret.op = "delete" /\ ret.id = ret'.id)
                => (ret'.result = FALSE /\ lectures' = lectures)]_vars
\* delete_lecture was called for an id whose row was deleted before: it
\* returned False, and another row is still in the store
DeletedTwice ==
    /\ ret.op = "delete"
    /\ ret.result = FALSE
    /\ ret.id <= last_id
    /\ ret.id \notin DOMAIN lectures
    /\ lectures # <<>>

====
